---- MODULE Spec2Model ----
(***************************************************************************)
(* TD Launcher Plus: the persistent history store (config.py) and the      *)
(* runtime version resolver (td_manager.py, td_launcher.py).               *)
(*                                                                         *)
(* Strings are modelled as sequences of tokens.  A path is a sequence of   *)
(* tokens drawn from a drive token, the two separators and a few file-name *)
(* letters, so that os.path.abspath / normpath / normcase are computed the *)
(* way the platform computes them.                                         *)
(***************************************************************************)
EXTENDS Integers, Sequences, FiniteSets, TLC

VARIABLES
    platform,   \* platform.system(): "Windows", "Darwin" or "Linux"
    pc,         \* "start" before Config() is constructed, "running", "crashed"
    config,     \* Config._config, a function from the keys present to values
    disk,       \* the configuration directory and config.json
    registry,   \* HKCU\Software\Derivative\recent files, in enumeration order
    sfl,        \* the paths extracted from the bookmarks of the .sfl4 store
    fsFiles,    \* project files that exist on disk (normalised paths)
    now,        \* time.time()
    last,       \* the last call: operation, argument, document before, results
    versions,   \* TDManager.versions: the keys in dict (insertion) order
    build_info, \* LauncherApp.build_info: the required version key
    panel,      \* what _update_version_panel last computed
    ui,         \* LauncherApp: the selection and what the session has done
    analysis,   \* LauncherApp: the background analysis of the selected file
    install,    \* LauncherApp: the installer files and the install monitoring
    host        \* the machine: installed bundles, CPU, the inspection tool's run

vars == <<platform, pc, config, disk, registry, sfl, fsFiles, now, last,
          versions, build_info, panel, ui, analysis, install, host>>

native == <<registry, sfl, fsFiles, host>>    \* what the host keeps
resolver == <<versions, build_info, panel>>   \* the version resolver's state
app == <<ui, analysis, install>>              \* the application window's state

----------------------------------------------------------------------------
(* Bounds *)

MaxTime == 2        \* number of add_recent_file calls in one behaviour
MaxTemplates == 3   \* number of add_template calls that grow the list
MaxVersions == 3    \* number of installed versions discovered
MaxNative == 2      \* number of entries of a native history at the start
MaxSfl == 1         \* number of bookmarks in the .sfl4 store
MaxStored == 2      \* number of entries of a list kept from an earlier session

----------------------------------------------------------------------------
(* Sequences *)

Range(s) == {s[i] : i \in 1..Len(s)}

\* s[:n] of Python, for any integer n (a negative n counts from the end)
SliceTo(s, n) ==
    LET stop == IF n >= 0 THEN (IF n < Len(s) THEN n ELSE Len(s))
                ELSE (IF Len(s) + n > 0 THEN Len(s) + n ELSE 0)
    IN  SubSeq(s, 1, stop)

----------------------------------------------------------------------------
(* Paths *)

Letters == {"a", "A", "b"}
Seps == {"/", "\\"}
Drive == "C:"
Cwd == <<"/">>      \* the working directory on the POSIX platforms

\* str.lower() on one token
lower(tok) ==
    CASE tok = "A" -> "a"
      [] tok = "C:" -> "c:"
      [] OTHER -> tok

\* the paths the user interface hands to the store on platform plat
PathInputs(plat) ==
    IF plat = "Windows"
    THEN {<<Drive, s, l>> : s \in Seps, l \in Letters}
    ELSE {<<"/", l>> : l \in Letters} \cup {<<l>> : l \in Letters}

\* os.path.normpath
normpath(plat, p) ==
    IF plat = "Windows"
    THEN [i \in 1..Len(p) |-> IF p[i] = "/" THEN "\\" ELSE p[i]]
    ELSE p

\* os.path.abspath
abspath(plat, p) ==
    IF plat = "Windows"
    THEN normpath(plat, IF p # <<>> /\ p[1] \in {"C:", "c:"} THEN p
                        ELSE <<Drive>> \o p)
    ELSE normpath(plat, IF p # <<>> /\ p[1] = "/" THEN p ELSE Cwd \o p)

\* os.path.normcase
normcase(plat, p) ==
    IF plat = "Windows"
    THEN [i \in 1..Len(p) |-> IF p[i] = "/" THEN "\\" ELSE lower(p[i])]
    ELSE p

\* os.path.normcase(os.path.normpath(os.path.abspath(p)))
NormKey(plat, p) == normcase(plat, normpath(plat, abspath(plat, p)))

\* os.path.exists: the file system resolves a path the way the platform does
exists(plat, files, p) == p # <<>> /\ NormKey(plat, p) \in files

\* the files that can exist on platform plat
AllFiles(plat) == {NormKey(plat, p) : p \in PathInputs(plat)}

----------------------------------------------------------------------------
(* Sorting: Python's sorted()/list.sort() is stable *)

LexLess(a, b) == a[1] < b[1] \/ (a[1] = b[1] /\ a[2] < b[2])

RECURSIVE SortPick(_, _)
\* the indices in S ordered by (K[i], i): a stable sort by the keys K
SortPick(S, K) ==
    IF S = {} THEN <<>>
    ELSE LET m == CHOOSE i \in S : \A j \in S \ {i} :
                      LexLess(K[i], K[j]) \/ (K[i] = K[j] /\ i < j)
         IN  <<m>> \o SortPick(S \ {m}, K)

\* sorted(s, key = K) where K[i] is the <<major, minor>> key of s[i]
StableSort(s, K) ==
    LET order == SortPick(1..Len(s), K)
    IN  [i \in 1..Len(s) |-> s[order[i]]]

----------------------------------------------------------------------------
(* The configuration document *)

DEFAULT_CONFIG ==
    [version |-> 1,
     recent_files |-> <<>>,
     templates |-> <<>>,
     max_recent_files |-> 33,
     confirm_remove_from_list |-> TRUE,
     show_icons |-> FALSE,
     show_readme |-> FALSE,
     show_full_history |-> TRUE,
     has_prompted_file_assoc |-> FALSE]

EmptyDoc == [k \in {} |-> 0]                      \* {}

Get(doc, key, default) == IF key \in DOMAIN doc THEN doc[key] ELSE default

Put(doc, key, val) ==                             \* doc[key] = val
    [k \in DOMAIN doc \cup {key} |-> IF k = key THEN val ELSE doc[k]]

Pop(doc, key) == [k \in DOMAIN doc \ {key} |-> doc[k]]

Merge(d, l) ==                                    \* {**d, **l}
    [k \in DOMAIN d \cup DOMAIN l |-> IF k \in DOMAIN l THEN l[k] ELSE d[k]]

\* A list entry is a bare path string or a small record.
StrEntry(p) == [kind |-> "str", path |-> p, source |-> "none", last_opened |-> 0]
DictEntry(p, src, t) == [kind |-> "dict", path |-> p, source |-> src, last_opened |-> t]

_get_path_from_entry(entry) == entry.path

----------------------------------------------------------------------------
(* The configuration directory and file *)

\* disk.dir  : "exists", "missing" (can be created) or "blocked" (cannot)
\* disk.kind : what config.json holds: "absent", "undecodable" (bytes that are
\*             not UTF-8), "malformed" (not JSON), "object", or valid JSON of
\*             another shape: "array", "string", "number", "null"
\* disk.doc  : the object when kind = "object"
\* disk.readable, disk.writable : whether open() for reading / writing succeeds
\* disk.full : whether writing to the opened file fails
\* json.dump followed by json.load returns the same document: its values are
\* strings, numbers, booleans, lists and string-keyed objects only.
FileExists(d) == d.dir = "exists" /\ d.kind # "absent"

_ensure_config_dir(d) ==
    IF d.dir = "missing" THEN [ok |-> TRUE, disk |-> [d EXCEPT !.dir = "exists"]]
    ELSE [ok |-> d.dir = "exists", disk |-> d]

save_reports_success(cfg, d) ==
    LET e == _ensure_config_dir(d)
    IN  [ok |-> TRUE,
         disk |-> IF e.disk.dir = "exists" /\ e.disk.writable
                  THEN [e.disk EXCEPT !.kind = IF e.disk.full THEN "malformed" ELSE "object",
                                      !.doc = IF e.disk.full THEN EmptyDoc ELSE cfg]
                  ELSE e.disk]

\* Config.save: whether it reports success, and the disk afterwards.
\* open() fails when the directory is missing or the file may not be written;
\* a full disk lets open() truncate the file and fails the write.  Both are
\* OSError (IOError), which save() catches.
save(cfg, d) ==
    LET e == _ensure_config_dir(d)
        opened == e.disk.dir = "exists" /\ e.disk.writable
    IN  IF ~opened THEN [ok |-> FALSE, disk |-> e.disk]
        ELSE IF e.disk.full
        THEN [ok |-> FALSE,
              disk |-> [e.disk EXCEPT !.kind = "malformed", !.doc = EmptyDoc]]
        ELSE [ok |-> TRUE,
              disk |-> [e.disk EXCEPT !.kind = "object", !.doc = cfg]]

\* Config.load: the document afterwards and whether an exception escaped
load(cfg, d) ==
    IF ~FileExists(d) THEN [raised |-> FALSE, config |-> DEFAULT_CONFIG]
    ELSE IF ~d.readable THEN [raised |-> FALSE, config |-> DEFAULT_CONFIG]
    ELSE IF d.kind = "undecodable" THEN [raised |-> TRUE, config |-> cfg]
    ELSE IF d.kind = "malformed" THEN [raised |-> FALSE, config |-> DEFAULT_CONFIG]
    ELSE IF d.kind # "object" THEN [raised |-> TRUE, config |-> cfg]
    ELSE LET loaded == d.doc
             migrated ==
                 IF "recent_files" \in DOMAIN loaded
                    /\ "launcher_recents" \notin DOMAIN loaded
                 THEN Put(Pop(loaded, "recent_files"), "launcher_recents",
                          loaded["recent_files"])
                 ELSE loaded
         IN  [raised |-> FALSE, config |-> Merge(DEFAULT_CONFIG, migrated)]

----------------------------------------------------------------------------
(* Bookkeeping of the last call, for stating what a call did *)

\* arg is the path argument of the call; for load and save, which take none,
\* it is the disk the call found
NoCall == [op |-> "none", arg |-> <<>>, pre |-> EmptyDoc, ok |-> FALSE,
           n |-> 0, out |-> <<>>]

Call(op, arg, ok, n, out) ==
    [op |-> op, arg |-> arg, pre |-> config, ok |-> ok, n |-> n, out |-> out]

----------------------------------------------------------------------------
(* Construction, save, set *)

\* Config.__init__: _config = {} and then load(); an exception that escapes
\* load() escapes the constructor and LauncherApp.__init__
Construct ==
    /\ pc = "start"
    /\ LET r == load(config, disk)
       IN  /\ config' = r.config
           /\ pc' = IF r.raised THEN "crashed" ELSE "running"
           /\ last' = Call("load", disk, ~r.raised, 0, <<>>)
    /\ UNCHANGED <<platform, disk, native, now, resolver, app>>

Save ==
    /\ pc = "running"
    /\ LET r == save(config, disk)
       IN  /\ disk' = r.disk
           /\ last' = Call("save", disk, r.ok, 0, <<>>)
    /\ UNCHANGED <<platform, pc, config, native, now, resolver, app>>

PrefKeys == {"show_icons"}

\* Config.set(key, value)
Set ==
    /\ pc = "running"
    /\ \E key \in PrefKeys, value \in BOOLEAN :
          LET cfg == Put(config, key, value)
              r == save(cfg, disk)
          IN  /\ config' = cfg
              /\ disk' = r.disk
              /\ last' = Call("set", <<key>>, r.ok, 0, <<>>)
    /\ UNCHANGED <<platform, pc, native, now, resolver, app>>

\* Config.__setitem__(key, value)
SetItem ==
    /\ pc = "running"
    /\ \E key \in PrefKeys, value \in BOOLEAN :
          /\ config' = Put(config, key, value)
          /\ last' = Call("setitem", <<key>>, TRUE, 0, <<>>)
    /\ UNCHANGED <<platform, pc, disk, native, now, resolver, app>>

\* The environment: permissions change, the disk fills up or is freed, the
\* configuration directory is removed (with the file in it)
EnvFault ==
    /\ pc = "running"
    /\ \/ \E w \in BOOLEAN : disk' = [disk EXCEPT !.writable = w]
       \/ \E f \in BOOLEAN : disk' = [disk EXCEPT !.full = f]
       \/ \E d \in {"missing", "blocked"} :
             disk' = [disk EXCEPT !.dir = d, !.kind = "absent", !.doc = EmptyDoc]
    /\ disk' # disk
    /\ UNCHANGED <<platform, pc, config, native, now, last, resolver, app>>

----------------------------------------------------------------------------
(* Version strings *)

\* A version string is its product prefix ("" when it has none) and the
\* dot-separated segments that follow; a segment is a decimal number or not.
Num(n) == [num |-> TRUE, val |-> n]
NotNum == [num |-> FALSE, val |-> 0]
Key(prefix, parts) == [prefix |-> prefix, parts |-> parts]
TD(parts) == Key("TouchDesigner.", parts)
None == Key("", <<>>)                      \* Python's None

\* the version panel before it is first filled
NoPanel == [shown |-> FALSE, required |-> None, installed |-> <<>>,
            version_keys |-> <<>>, default_version |-> None]

\* LauncherApp.__init__: nothing selected, nothing launched, no analysis
NoUi == [selected_file |-> <<>>, active_manual_file |-> <<>>,
         adds |-> 0, launches |-> 0]

\* a machine with nothing installed and no project file
NoHost == [installs |-> <<>>, machine |-> "x86_64",
           run |-> [file_exists |-> FALSE, tool |-> FALSE, spawn_ok |-> FALSE,
                    decodable |-> TRUE, returncode |-> 0, stdout |-> <<>>]]

PollInterval == 3   \* seconds between two polls of the installed versions

NoUri == [toe_dir |-> <<>>, td_filename |-> None]     \* td_uri = None
NoInstall == [install_pending_version |-> None, since_check |-> PollInterval,
              installers |-> {}, running |-> {}, starts |-> 0,
              opened |-> NoUri, offered |-> NoUri]

NoAnalysis == [current_analysis_id |-> 0, analysis_status |-> "idle",
               latest |-> <<>>, result_of |-> <<>>, td_uri_of |-> <<>>,
               version_cache |-> {}, workers |-> <<>>]

----------------------------------------------------------------------------
(* Initial states *)

Platforms == {"Windows", "Darwin", "Linux"}

\* two stored paths of platform plat
PathA(plat) == IF plat = "Windows" THEN <<Drive, "\\", "a">> ELSE <<"/", "a">>
PathB(plat) == IF plat = "Windows" THEN <<Drive, "\\", "b">> ELSE <<"/", "b">>

\* a healthy disk holding document doc
DiskWith(doc) ==
    [dir |-> "exists", kind |-> "object", doc |-> doc,
     readable |-> TRUE, writable |-> TRUE, full |-> FALSE]

\* the documents config.json may hold: any subset of the keys below, written
\* by this or by an earlier (legacy) version of the launcher
LegacyLists(plat) ==
    {<<>>, <<StrEntry(PathA(plat))>>, <<StrEntry(PathA(plat)), StrEntry(PathB(plat))>>}
LauncherLists(plat) == {<<>>, <<DictEntry(PathB(plat), "launcher", 1)>>}

FileDocs(plat) ==
    {Merge(Merge(a, b), c) :
        a \in {EmptyDoc} \cup {[recent_files |-> v] : v \in LegacyLists(plat)},
        b \in {EmptyDoc} \cup {[launcher_recents |-> v] : v \in LauncherLists(plat)},
        c \in {EmptyDoc, [max_recent_files |-> 2]}}

NonObjectKinds == {"undecodable", "malformed", "array", "string", "number", "null"}

DiskStates(plat) ==
    {[dir |-> "exists", kind |-> "object", doc |-> doc,
      readable |-> r, writable |-> w, full |-> f] :
        doc \in FileDocs(plat), r \in BOOLEAN, w \in BOOLEAN, f \in BOOLEAN}
    \cup
    {[dir |-> "exists", kind |-> k, doc |-> EmptyDoc,
      readable |-> r, writable |-> w, full |-> f] :
        k \in NonObjectKinds \cup {"absent"}, r \in BOOLEAN, w \in BOOLEAN,
        f \in BOOLEAN}
    \cup
    {[dir |-> d, kind |-> "absent", doc |-> EmptyDoc,
      readable |-> TRUE, writable |-> w, full |-> f] :
        d \in {"missing", "blocked"}, w \in BOOLEAN, f \in BOOLEAN}

InitBase ==
    /\ platform \in Platforms
    /\ pc = "start"
    /\ config = EmptyDoc
    /\ fsFiles = AllFiles(platform)
    /\ now = 1
    /\ last = NoCall
    /\ versions = <<>>
    /\ build_info = None
    /\ panel = NoPanel
    /\ ui = NoUi
    /\ analysis = NoAnalysis
    /\ install = NoInstall
    /\ host = NoHost

\* The store alone: any configuration file, then saves and preference changes
InitStore ==
    /\ InitBase
    /\ registry = <<>>
    /\ sfl = <<>>
    /\ disk \in DiskStates(platform)

NextStore == Construct \/ Save \/ Set \/ SetItem \/ EnvFault

SpecStore == InitStore /\ [][NextStore]_vars

----------------------------------------------------------------------------
(* Recent files *)

\* A registry value: isfile says that its name starts with 'file', numeric
\* that the rest of the name is an integer (suffix), value is its string.
RegValue(n, v) == [isfile |-> TRUE, numeric |-> TRUE, suffix |-> n, value |-> v]

_read_windows_td_recents_unsorted(plat, reg) ==
    IF plat # "Windows" THEN <<>>
    ELSE LET Listed(r) == r.isfile /\ r.value # <<>>
             raw == SelectSeq(reg, Listed)
         IN  [i \in 1..Len(raw) |-> DictEntry(raw[i].value, "td", 0)]

_read_windows_td_recents(plat, reg) ==
    IF plat # "Windows" THEN <<>>                 \* no winreg module
    ELSE LET Listed(r) == r.isfile /\ r.value # <<>>
             raw == SelectSeq(reg, Listed)
             idx == [i \in 1..Len(raw) |->
                        <<IF raw[i].numeric THEN raw[i].suffix ELSE 9999, 0>>]
             sorted == StableSort(raw, idx)
         IN  [i \in 1..Len(sorted) |-> DictEntry(sorted[i].value, "td", 0)]

RECURSIVE MacEntries(_, _)
\* the loop of _read_mac_td_recents: bookmarks without a path and paths
\* already listed are skipped
MacEntries(paths, acc) ==
    IF paths = <<>> THEN acc
    ELSE LET p == Head(paths)
             dup == \E i \in 1..Len(acc) : acc[i].path = p
         IN  MacEntries(Tail(paths),
                        IF p # <<>> /\ ~dup THEN Append(acc, DictEntry(p, "td", 0))
                        ELSE acc)

_read_mac_td_recents(store) == MacEntries(store, <<>>)

\* the index of the registry value _blank_windows_td_recent blanks, 0 if none
BlankIndex(plat, reg, p) ==
    LET hits == {i \in 1..Len(reg) :
                    /\ reg[i].isfile /\ reg[i].value # <<>>
                    /\ NormKey(plat, reg[i].value) = NormKey(plat, p)}
    IN  IF plat # "Windows" \/ hits = {} THEN 0
        ELSE CHOOSE i \in hits : \A j \in hits : i <= j

_blank_windows_td_recent(plat, reg, p) ==
    LET i == BlankIndex(plat, reg, p)
    IN  IF i = 0 THEN reg ELSE [reg EXCEPT ![i].value = <<>>]

add_recent_file_untruncated(plat, cfg, p, t) ==
    LET abs_path == abspath(plat, p)
        Other(rf) == _get_path_from_entry(rf) # abs_path
        recent_files == SelectSeq(Get(cfg, "launcher_recents", <<>>), Other)
    IN  Put(cfg, "launcher_recents",
            <<DictEntry(abs_path, "launcher", t)>> \o recent_files)

\* Config.add_recent_file, before its save()
add_recent_file(plat, cfg, p, t) ==
    LET abs_path == abspath(plat, p)
        Other(rf) == _get_path_from_entry(rf) # abs_path
        recent_files == SelectSeq(Get(cfg, "launcher_recents", <<>>), Other)
        entry == DictEntry(abs_path, "launcher", t)
        max_recent == Get(cfg, "max_recent_files", 33)
    IN  Put(cfg, "launcher_recents", SliceTo(<<entry>> \o recent_files, max_recent))

\* Config.remove_recent_file, before its save()
remove_recent_file(plat, cfg, reg, p) ==
    LET norm_path == NormKey(plat, p)
        NoMatch(rf) == NormKey(plat, _get_path_from_entry(rf)) # norm_path
        c1 == Put(cfg, "launcher_recents",
                  SelectSeq(Get(cfg, "launcher_recents", <<>>), NoMatch))
        c2 == Put(c1, "td_recents", SelectSeq(Get(cfg, "td_recents", <<>>), NoMatch))
    IN  [config |-> c2, registry |-> _blank_windows_td_recent(plat, reg, p)]

\* Config.clear_recents, before its save()
clear_recents(cfg) == Put(Put(cfg, "launcher_recents", <<>>), "td_recents", <<>>)

RECURSIVE BlankMissing(_, _, _, _)
\* the registry loop of clear_missing_files over the entries read before it
BlankMissing(plat, reg, files, entries) ==
    IF entries = <<>> THEN [registry |-> reg, removed |-> 0]
    ELSE LET path == Head(entries).path
             miss == path # <<>> /\ ~exists(plat, files, path)
             rest == BlankMissing(plat,
                        IF miss THEN _blank_windows_td_recent(plat, reg, path) ELSE reg,
                        files, Tail(entries))
         IN  [registry |-> rest.registry,
              removed |-> rest.removed + (IF miss THEN 1 ELSE 0)]

clear_missing_files_keeps_templates(plat, cfg, reg, files) ==
    LET Present(rf) == exists(plat, files, _get_path_from_entry(rf))
        launcher == Get(cfg, "launcher_recents", <<>>)
        cleaned == SelectSeq(launcher, Present)
        td == Get(cfg, "td_recents", <<>>)
        cleaned_td == SelectSeq(td, Present)
        win == IF plat = "Windows"
               THEN BlankMissing(plat, reg, files, _read_windows_td_recents(plat, reg))
               ELSE [registry |-> reg, removed |-> 0]
        templates == Get(cfg, "templates", <<>>)
    IN  [config |-> Put(Put(Put(cfg, "launcher_recents", cleaned),
                            "td_recents", cleaned_td), "templates", templates),
         registry |-> win.registry,
         removed |-> (Len(launcher) - Len(cleaned)) + (Len(td) - Len(cleaned_td))
                     + win.removed]

\* Config.clear_missing_files, before its save()
clear_missing_files(plat, cfg, reg, files) ==
    LET Present(rf) == exists(plat, files, _get_path_from_entry(rf))
        launcher == Get(cfg, "launcher_recents", <<>>)
        cleaned == SelectSeq(launcher, Present)
        td == Get(cfg, "td_recents", <<>>)
        cleaned_td == SelectSeq(td, Present)
        win == IF plat = "Windows"
               THEN BlankMissing(plat, reg, files, _read_windows_td_recents(plat, reg))
               ELSE [registry |-> reg, removed |-> 0]
        templates == Get(cfg, "templates", <<>>)
        cleaned_t == SelectSeq(templates, Present)
    IN  [config |-> Put(Put(Put(cfg, "launcher_recents", cleaned),
                            "td_recents", cleaned_td), "templates", cleaned_t),
         registry |-> win.registry,
         removed |-> (Len(launcher) - Len(cleaned)) + (Len(td) - Len(cleaned_td))
                     + win.removed + (Len(templates) - Len(cleaned_t))]

RECURSIVE _append_unique(_, _, _, _)
\* the helper of get_recent_files: acc is [list |-> merged_list, seen |-> seen_paths]
_append_unique(plat, items, source_tag, acc) ==
    IF items = <<>> THEN acc
    ELSE LET item == Head(items)
             path == _get_path_from_entry(item)
             norm_path == IF path # <<>> THEN NormKey(plat, path) ELSE <<>>
             e0 == IF item.kind = "dict" THEN item ELSE DictEntry(path, "none", 0)
             entry == IF source_tag # "" THEN [e0 EXCEPT !.source = source_tag] ELSE e0
         IN  _append_unique(plat, Tail(items), source_tag,
                IF path # <<>> /\ norm_path \notin acc.seen
                THEN [list |-> Append(acc.list, entry),
                      seen |-> acc.seen \cup {norm_path}]
                ELSE acc)

\* the native history get_recent_files merges in
TdRecents(plat, cfg, reg, store) ==
    IF plat = "Windows" THEN _read_windows_td_recents(plat, reg)
    ELSE IF plat = "Darwin"
    THEN LET td_recents == _read_mac_td_recents(store)
             sfl_paths == {td_recents[i].path : i \in 1..Len(td_recents)}
             Fresh(e) == e.path # <<>> /\ e.path \notin sfl_paths
             config_td == SelectSeq(Get(cfg, "td_recents", <<>>), Fresh)
         IN  td_recents \o [i \in 1..Len(config_td) |->
                               DictEntry(config_td[i].path, "td", 0)]
    ELSE Get(cfg, "td_recents", <<>>)

get_recent_files_native_first(plat, cfg, reg, store, merged) ==
    LET launcher_recents == Get(cfg, "launcher_recents", <<>>)
        td_recents == TdRecents(plat, cfg, reg, store)
        empty == [list |-> <<>>, seen |-> {}]
    IN  IF ~merged THEN launcher_recents
        ELSE LET a1 == _append_unique(plat, td_recents, "td", empty)
             IN  _append_unique(plat, launcher_recents, "", a1).list

\* Config.get_recent_files.  (A record of td_recents would have its source set
\* in place on the other platforms; td_recents holds bare paths here, the list
\* the companion extension takes from the host application.)
get_recent_files(plat, cfg, reg, store, merged) ==
    LET launcher_recents == Get(cfg, "launcher_recents", <<>>)
        td_recents == TdRecents(plat, cfg, reg, store)
        empty == [list |-> <<>>, seen |-> {}]
    IN  IF ~merged THEN launcher_recents
        ELSE IF plat = "Darwin"
        THEN LET td_recents_ts == Get(cfg, "td_recents_timestamp", 0)
                 entries == [i \in 1..Len(launcher_recents) |->
                               IF launcher_recents[i].kind = "dict"
                               THEN launcher_recents[i]
                               ELSE DictEntry(launcher_recents[i].path, "none", 0)]
                 Recent(e) == e.last_opened > td_recents_ts
                 Older(e) == ~Recent(e)
                 recent0 == SelectSeq(entries, Recent)
                 older_launcher == SelectSeq(entries, Older)
                 recent_launcher ==
                     StableSort(recent0, [i \in 1..Len(recent0) |->
                                            <<0 - recent0[i].last_opened, 0>>])
                 a1 == _append_unique(plat, recent_launcher, "", empty)
                 a2 == _append_unique(plat, td_recents, "td", a1)
             IN  _append_unique(plat, older_launcher, "", a2).list
        ELSE LET a1 == _append_unique(plat, td_recents, "td", empty)
             IN  _append_unique(plat, launcher_recents, "", a1).list

----------------------------------------------------------------------------
(* The store's operations on the recent files, each with its save() *)

\* the paths the host application keeps in its own history
NativePaths(plat) ==
    IF plat = "Windows"
    THEN {<<Drive, "/", "a">>, <<Drive, "/", "A">>, <<Drive, "\\", "b">>}
    ELSE {<<"/", "a">>, <<"a">>, <<"/", "b">>}

AddRecentFile ==
    /\ pc = "running"
    /\ now <= MaxTime
    /\ \E p \in PathInputs(platform) :
          LET cfg == add_recent_file(platform, config, p, now)
              r == save(cfg, disk)
          IN  /\ config' = cfg
              /\ disk' = r.disk
              /\ last' = Call("add_recent_file", p, r.ok, 0, <<>>)
    /\ now' = now + 1
    /\ UNCHANGED <<platform, pc, native, resolver, app>>

RemoveRecentFile ==
    /\ pc = "running"
    /\ \E p \in PathInputs(platform) \cup NativePaths(platform) :
          LET m == remove_recent_file(platform, config, registry, p)
              r == save(m.config, disk)
          IN  /\ config' = m.config
              /\ registry' = m.registry
              /\ disk' = r.disk
              /\ last' = Call("remove_recent_file", p, r.ok, 0, <<>>)
    /\ UNCHANGED <<platform, pc, sfl, fsFiles, host, now, resolver, app>>

ClearRecents ==
    /\ pc = "running"
    /\ LET cfg == clear_recents(config)
           r == save(cfg, disk)
       IN  /\ config' = cfg
           /\ disk' = r.disk
           /\ last' = Call("clear_recents", <<>>, r.ok, 0, <<>>)
    /\ UNCHANGED <<platform, pc, native, now, resolver, app>>

\* last.arg keeps the files on disk and the registry the call found
ClearMissingFiles ==
    /\ pc = "running"
    /\ LET m == clear_missing_files(platform, config, registry, fsFiles)
           r == save(m.config, disk)
       IN  /\ config' = m.config
           /\ registry' = m.registry
           /\ disk' = r.disk
           /\ last' = Call("clear_missing_files",
                           [files |-> fsFiles, registry |-> registry],
                           r.ok, m.removed, <<>>)
    /\ UNCHANGED <<platform, pc, sfl, fsFiles, host, now, resolver, app>>

\* last.ok keeps the merged flag, last.out the list returned
GetRecentFiles ==
    /\ pc = "running"
    /\ \E merged \in BOOLEAN :
          last' = Call("get_recent_files", <<>>, merged, 0,
                       get_recent_files(platform, config, registry, sfl, merged))
    /\ UNCHANGED <<platform, pc, config, disk, native, now, resolver, app>>

\* The environment: a project file is deleted
FileDeleted ==
    /\ pc = "running"
    /\ \E f \in fsFiles : fsFiles' = fsFiles \ {f}
    /\ UNCHANGED <<platform, pc, config, disk, registry, sfl, host, now, last,
                   resolver, app>>

----------------------------------------------------------------------------
(* The recent files: initial states and specification *)

SeqsUpTo(S, n) == UNION {[1..k -> S] : k \in 0..n}

\* the registry holding the values vs as file0, file1, ... , enumerated in
\* ascending or in descending order of the suffix
RegistryOf(vs, asc) ==
    [i \in 1..Len(vs) |-> RegValue(IF asc THEN i - 1 ELSE Len(vs) - i, vs[i])]

RegistryStates(plat) ==
    IF plat # "Windows" THEN {<<>>}
    ELSE {RegistryOf(vs, asc) : vs \in SeqsUpTo(NativePaths(plat), MaxNative),
                                asc \in BOOLEAN}

SflStates(plat) ==
    IF plat # "Darwin" THEN {<<>>}
    ELSE SeqsUpTo(NativePaths(plat), MaxSfl)

\* td_recents as the companion extension writes it: a list of bare paths
TdLists(plat) ==
    LET paths == IF plat = "Windows" THEN {<<>>, <<PathA(plat)>>}
                 ELSE SeqsUpTo(NativePaths(plat), MaxNative)
    IN  {[i \in 1..Len(ps) |-> StrEntry(ps[i])] : ps \in paths}

MaxRecentChoices == {-1, 0, 1, 33}

\* Either a configured history bound and no native history, or the default
\* bound and a native history.
InitRecents ==
    /\ InitBase
    /\ \/ /\ registry = <<>>
          /\ sfl = <<>>
          /\ \E m \in MaxRecentChoices : disk = DiskWith([max_recent_files |-> m])
       \/ /\ registry \in RegistryStates(platform)
          /\ sfl \in SflStates(platform)
          /\ \E td \in TdLists(platform) :
                disk = DiskWith(IF td = <<>> THEN EmptyDoc ELSE [td_recents |-> td])

NextRecents ==
    \/ Construct
    \/ AddRecentFile
    \/ RemoveRecentFile
    \/ ClearRecents
    \/ GetRecentFiles

SpecRecents == InitRecents /\ [][NextRecents]_vars

----------------------------------------------------------------------------
(* Templates *)

Templates(cfg) == Get(cfg, "templates", <<>>)

\* the index of the first template whose path is abs_path, 0 if there is none
TemplateIndex(templates, abs_path) ==
    LET hits == {i \in 1..Len(templates) :
                    _get_path_from_entry(templates[i]) = abs_path}
    IN  IF hits = {} THEN 0 ELSE CHOOSE i \in hits : \A j \in hits : i <= j

Swap(s, i, j) == [s EXCEPT ![i] = s[j], ![j] = s[i]]

\* Config.add_template, before its save(); saved says whether it gets there
add_template(plat, cfg, p) ==
    LET abs_path == abspath(plat, p)
        templates == Templates(cfg)
    IN  IF TemplateIndex(templates, abs_path) # 0
        THEN [config |-> cfg, saved |-> FALSE]
        ELSE [config |-> Put(cfg, "templates", <<StrEntry(abs_path)>> \o templates),
              saved |-> TRUE]

\* Config.remove_template, before its save()
remove_template(plat, cfg, p) ==
    LET abs_path == abspath(plat, p)
        Other(t) == _get_path_from_entry(t) # abs_path
    IN  Put(cfg, "templates", SelectSeq(Templates(cfg), Other))

move_template_up_swaps_ends(plat, cfg, p) ==
    LET templates == Templates(cfg)
        idx == TemplateIndex(templates, abspath(plat, p))
    IN  IF idx = 0 THEN [config |-> cfg, moved |-> FALSE]
        ELSE [config |-> Put(cfg, "templates",
                             IF idx = 1 THEN Swap(templates, 1, Len(templates))
                             ELSE Swap(templates, idx, idx - 1)),
              moved |-> TRUE]

\* Config.move_template_up, before its save(); moved is what it returns
move_template_up(plat, cfg, p) ==
    LET templates == Templates(cfg)
        idx == TemplateIndex(templates, abspath(plat, p))
    IN  IF idx = 0 THEN [config |-> cfg, moved |-> FALSE]
        ELSE [config |-> Put(cfg, "templates",
                             IF idx = 1 THEN Append(Tail(templates), templates[1])
                             ELSE Swap(templates, idx, idx - 1)),
              moved |-> TRUE]

move_template_down_to_end(plat, cfg, p) ==
    LET templates == Templates(cfg)
        n == Len(templates)
        idx == TemplateIndex(templates, abspath(plat, p))
    IN  IF idx = 0 THEN [config |-> cfg, moved |-> FALSE]
        ELSE [config |-> Put(cfg, "templates",
                             IF idx >= n
                             THEN <<templates[idx]>> \o SubSeq(templates, 1, n - 1)
                             ELSE SubSeq(templates, 1, idx - 1)
                                  \o SubSeq(templates, idx + 1, n)
                                  \o <<templates[idx]>>),
              moved |-> TRUE]

\* Config.move_template_down, before its save(); moved is what it returns
move_template_down(plat, cfg, p) ==
    LET templates == Templates(cfg)
        n == Len(templates)
        idx == TemplateIndex(templates, abspath(plat, p))
    IN  IF idx = 0 THEN [config |-> cfg, moved |-> FALSE]
        ELSE [config |-> Put(cfg, "templates",
                             IF idx >= n
                             THEN <<templates[idx]>> \o SubSeq(templates, 1, n - 1)
                             ELSE Swap(templates, idx, idx + 1)),
              moved |-> TRUE]

AddTemplate ==
    /\ pc = "running"
    /\ \E p \in PathInputs(platform) :
          LET m == add_template(platform, config, p)
              r == IF m.saved THEN save(m.config, disk) ELSE [ok |-> FALSE, disk |-> disk]
          IN  /\ Len(Templates(m.config)) <= MaxTemplates
              /\ config' = m.config
              /\ disk' = r.disk
              /\ last' = Call("add_template", p, r.ok, 0, <<>>)
    /\ UNCHANGED <<platform, pc, native, now, resolver, app>>

RemoveTemplate ==
    /\ pc = "running"
    /\ \E p \in PathInputs(platform) :
          LET cfg == remove_template(platform, config, p)
              r == save(cfg, disk)
          IN  /\ config' = cfg
              /\ disk' = r.disk
              /\ last' = Call("remove_template", p, r.ok, 0, <<>>)
    /\ UNCHANGED <<platform, pc, native, now, resolver, app>>

\* last.ok keeps the value the move returns
MoveTemplateUp ==
    /\ pc = "running"
    /\ \E p \in PathInputs(platform) :
          LET m == move_template_up(platform, config, p)
              r == IF m.moved THEN save(m.config, disk) ELSE [ok |-> FALSE, disk |-> disk]
          IN  /\ config' = m.config
              /\ disk' = r.disk
              /\ last' = Call("move_template_up", p, m.moved, 0, <<>>)
    /\ UNCHANGED <<platform, pc, native, now, resolver, app>>

MoveTemplateDown ==
    /\ pc = "running"
    /\ \E p \in PathInputs(platform) :
          LET m == move_template_down(platform, config, p)
              r == IF m.moved THEN save(m.config, disk) ELSE [ok |-> FALSE, disk |-> disk]
          IN  /\ config' = m.config
              /\ disk' = r.disk
              /\ last' = Call("move_template_down", p, m.moved, 0, <<>>)
    /\ UNCHANGED <<platform, pc, native, now, resolver, app>>

InitTemplates ==
    /\ InitBase
    /\ registry = <<>>
    /\ sfl = <<>>
    /\ disk \in {DiskWith(EmptyDoc),
                 [DiskWith(EmptyDoc) EXCEPT !.kind = "absent"]}

NextTemplates ==
    \/ Construct
    \/ AddTemplate
    \/ RemoveTemplate
    \/ MoveTemplateUp
    \/ MoveTemplateDown

SpecTemplates == InitTemplates /\ [][NextTemplates]_vars

----------------------------------------------------------------------------
(* Clearing the missing files: the lists come from an earlier session *)

\* the paths add_recent_file and add_template store
StoredPaths(plat) == {abspath(plat, p) : p \in PathInputs(plat)}

DistinctSeqs(S, n) ==
    {s \in SeqsUpTo(S, n) : \A i, j \in 1..Len(s) : i # j => s[i] # s[j]}

\* launcher_recents as add_recent_file leaves it: most recent first
StoredRecents(plat) ==
    {[i \in 1..Len(ps) |-> DictEntry(ps[i], "launcher", Len(ps) - i + 1)] :
        ps \in DistinctSeqs(StoredPaths(plat), MaxStored)}

\* templates as add_template leaves it
StoredTemplates(plat) ==
    {[i \in 1..Len(ps) |-> StrEntry(ps[i])] :
        ps \in DistinctSeqs(StoredPaths(plat), MaxStored - 1)}

InitClean ==
    /\ InitBase
    /\ registry \in RegistryStates(platform)
    /\ sfl = <<>>
    /\ \E lr \in StoredRecents(platform), t \in StoredTemplates(platform),
          td \in TdLists(platform) :
          disk = DiskWith([launcher_recents |-> lr, templates |-> t, td_recents |-> td])

NextClean == Construct \/ FileDeleted \/ ClearMissingFiles

SpecClean == InitClean /\ [][NextClean]_vars

----------------------------------------------------------------------------
(* Version keys *)


parse_version_string_failing_high(version_str) ==
    LET parts == version_str.parts
    IN  IF parts = <<>> \/ ~parts[1].num THEN <<9999, 9999>>
        ELSE IF Len(parts) > 1
        THEN (IF parts[2].num THEN <<parts[1].val, parts[2].val>>
              ELSE <<9999, 9999>>)
        ELSE <<parts[1].val, -1>>

\* TDManager.parse_version_string: int() of a segment that is not a number
\* raises, and the except clause returns (-1, -1)
parse_version_string(version_str) ==
    LET parts == version_str.parts
    IN  IF parts = <<>> \/ ~parts[1].num THEN <<-1, -1>>
        ELSE IF Len(parts) > 1
        THEN (IF parts[2].num THEN <<parts[1].val, parts[2].val>>
              ELSE <<-1, -1>>)
        ELSE <<parts[1].val, -1>>

\* TDManager.get_sorted_version_keys; vs is the dict's keys in dict order
get_sorted_version_keys(vs) ==
    StableSort(vs, [i \in 1..Len(vs) |-> parse_version_string(vs[i])])

LexLeq(a, b) == LexLess(a, b) \/ a = b

RECURSIVE ScanDefault(_, _, _)
\* the loop of _update_version_panel over the sorted keys, with its break
ScanDefault(keys, target_v, default_version) ==
    IF keys = <<>> THEN default_version
    ELSE IF LexLeq(parse_version_string(Head(keys)), target_v)
         THEN ScanDefault(Tail(keys), target_v, Head(keys))
         ELSE default_version

default_version_newest(version_keys, required) ==
    IF version_keys = <<>> THEN None ELSE version_keys[Len(version_keys)]

\* the default of the version radio button, _update_version_panel
default_version(version_keys, required) ==
    IF version_keys = <<>> THEN None
    ELSE IF required = None THEN version_keys[Len(version_keys)]
    ELSE IF required \in Range(version_keys) THEN required
    ELSE ScanDefault(version_keys, parse_version_string(required), version_keys[1])

\* the keys discovery can produce: the registry scan accepts value names of
\* the form dddd.d+ only; the bundle scan takes the first two segments of
\* CFBundleVersion, whatever they are
InstalledNumbers == {<<2021, 100>>, <<2021, 300>>, <<2022, 200>>, <<2023, 300>>}

DiscoverableKeys(plat) ==
    {TD(<<Num(v[1]), Num(v[2])>>) : v \in InstalledNumbers}
    \cup (IF plat = "Windows" THEN {}
          ELSE {TD(<<NotNum, Num(100)>>), TD(<<Num(2022), NotNum>>)})

\* TDManager.discover_versions, run by TDManager.__init__: the installed
\* versions in the order the scan met them
DiscoveredVersions(plat) == DistinctSeqs(DiscoverableKeys(plat), MaxVersions)

\* what inspect_toe_file can return: 'TouchDesigner.' and the last token of
\* the tool's second line, or None
RequiredKeys ==
    {None,
     TD(<<Num(2022), Num(999)>>), TD(<<Num(2019), Num(1)>>),
     TD(<<Num(2022), Num(200)>>), TD(<<Num(2021), Num(200)>>),
     TD(<<Num(2022)>>), TD(<<NotNum>>)}

\* the panel shows what the current state gives: the per-frame poll redraws
\* the panel when an analysis is ready, before the next selection is handled
PanelFresh ==
    panel.shown => (panel.required = build_info /\ panel.installed = versions)

\* a project file was inspected: build_info is what inspect_toe_file returned
Analyze ==
    /\ pc = "running"
    /\ PanelFresh
    /\ build_info' \in RequiredKeys
    /\ build_info' # build_info
    /\ UNCHANGED <<platform, pc, config, disk, native, now, last, versions, panel, app>>

\* _update_version_panel for a selected file whose analysis is not loading;
\* panel keeps what it was computed from and what it shows
UpdateVersionPanel ==
    /\ pc = "running"
    /\ LET version_keys == get_sorted_version_keys(versions)
       IN  panel' = [shown |-> TRUE,
                     required |-> build_info,
                     installed |-> versions,
                     version_keys |-> version_keys,
                     default_version |-> default_version(version_keys, build_info)]
    /\ UNCHANGED <<platform, pc, config, disk, native, now, last, versions,
                   build_info, app>>

InitVersions ==
    /\ platform \in Platforms
    /\ pc = "running"
    /\ config = DEFAULT_CONFIG
    /\ disk = [DiskWith(EmptyDoc) EXCEPT !.kind = "absent"]
    /\ registry = <<>>
    /\ sfl = <<>>
    /\ fsFiles = AllFiles(platform)
    /\ now = 1
    /\ last = NoCall
    /\ versions \in DiscoveredVersions(platform)
    /\ build_info = None
    /\ panel = NoPanel
    /\ ui = NoUi
    /\ analysis = NoAnalysis
    /\ install = NoInstall
    /\ host = NoHost

NextVersions == Analyze \/ UpdateVersionPanel

SpecVersions == InitVersions /\ [][NextVersions]_vars

----------------------------------------------------------------------------
(* Claims about load and save, under SpecStore *)

\* the file load() found is a readable JSON object
LoadedObject(d) == FileExists(d) /\ d.readable /\ d.kind = "object"

\* C4 (as claimed): loading a stored document that has the legacy recent_files
\* key and no launcher_recents key yields a document whose launcher_recents is
\* the legacy key's value and which no longer contains the legacy key.
C4_MigrationRoundTrip ==
    (/\ last.op = "load"
     /\ LoadedObject(last.arg)
     /\ "recent_files" \in DOMAIN last.arg.doc
     /\ "launcher_recents" \notin DOMAIN last.arg.doc)
    => (/\ "launcher_recents" \in DOMAIN config
        /\ config["launcher_recents"] = last.arg.doc["recent_files"]
        /\ "recent_files" \notin DOMAIN config)

\* C9 (as claimed): load never raises to the caller, whatever config.json
\* holds, and whenever the file cannot be read or parsed into a document the
\* in-memory document is the all-defaults document.
C9_LoadNeverRaises ==
    last.op = "load"
    => (/\ last.ok
        /\ pc # "crashed"
        /\ (~LoadedObject(last.arg) => config = DEFAULT_CONFIG))

\* an I/O error awaits save(): the directory cannot be created, the file
\* cannot be opened for writing, or the write fails
IoError(d) == d.dir = "blocked" \/ ~d.writable \/ d.full

\* C10: save never raises; on any I/O error, failure to create the
\* configuration directory included, it returns false and the in-memory
\* document is what it was before the call; otherwise it returns true.
C10_SaveReportsFailure ==
    last.op = "save"
    => (/\ config = last.pre
        /\ pc = "running"
        /\ (IoError(last.arg) => ~last.ok)
        /\ (~IoError(last.arg) => last.ok))

\* save() was called when the configuration directory could not be created
C10_Witness ==
    /\ last.op = "save"
    /\ last.arg.dir = "blocked"
    /\ ~last.ok
    /\ config = last.pre

----------------------------------------------------------------------------
(* Claims about the recent files, under SpecRecents *)

\* the equality rule: two paths name the same file
SameFile(p, q) == NormKey(platform, p) = NormKey(platform, q)

LauncherRecents == Get(config, "launcher_recents", <<>>)
MaxRecent == Get(config, "max_recent_files", 33)

\* C1 (as claimed, for a history bound of at least one entry): after
\* add_recent_file(p), p is the first element of launcher_recents and no other
\* element equals p under the equality rule.
C1_MruInvariant ==
    (last.op = "add_recent_file" /\ MaxRecent >= 1)
    => (/\ LauncherRecents # <<>>
        /\ SameFile(LauncherRecents[1].path, last.arg)
        /\ \A i \in 2..Len(LauncherRecents) :
              ~SameFile(LauncherRecents[i].path, last.arg))

\* C2 (as claimed): after every add_recent_file, for any configured
\* max_recent_files, launcher_recents is no longer than max_recent_files.
C2_BoundedHistory ==
    last.op = "add_recent_file" => Len(LauncherRecents) <= MaxRecent

\* C2 (amended): after every add_recent_file, for any configured
\* max_recent_files that is not negative, launcher_recents is no longer than
\* max_recent_files.
C2_BoundedHistoryNonNegative ==
    (last.op = "add_recent_file" /\ MaxRecent >= 0)
    => Len(LauncherRecents) <= MaxRecent

\* a file was added to a history that was full and did not hold it
C2_Witness ==
    /\ last.op = "add_recent_file"
    /\ MaxRecent = 1
    /\ Len(Get(last.pre, "launcher_recents", <<>>)) = 1
    /\ Get(last.pre, "launcher_recents", <<>>)[1].path # abspath(platform, last.arg)
    /\ Len(LauncherRecents) = 1
    /\ LauncherRecents[1].path = abspath(platform, last.arg)

\* the paths of the histories get_recent_files(merged) reads
SourcePaths(merged) ==
    {LauncherRecents[i].path : i \in 1..Len(LauncherRecents)}
    \cup (IF merged
          THEN LET td == TdRecents(platform, config, registry, sfl)
               IN  {td[i].path : i \in 1..Len(td)}
          ELSE {})

\* C3 (as claimed): for either value of merged, get_recent_files returns each
\* logical file of the histories it reads exactly once.
C3_Dedup ==
    last.op = "get_recent_files"
    => (/\ \A i, j \in 1..Len(last.out) :
              i # j => ~SameFile(last.out[i].path, last.out[j].path)
        /\ \A p \in SourcePaths(last.ok) :
              \E i \in 1..Len(last.out) : SameFile(last.out[i].path, p))

\* With merged = TRUE the merge does deduplicate: the part of the dedup
\* property that the code keeps.
MergedDedup ==
    (last.op = "get_recent_files" /\ last.ok)
    => (/\ \A i, j \in 1..Len(last.out) :
              i # j => ~SameFile(last.out[i].path, last.out[j].path)
        /\ \A p \in SourcePaths(TRUE) :
              \E i \in 1..Len(last.out) : SameFile(last.out[i].path, p))

----------------------------------------------------------------------------
(* Claims about the templates, under SpecTemplates *)

PreTemplates == Templates(last.pre)

\* C5: move_template_up on the first template moves it to the last position,
\* move_template_down on the last template moves it to the first position, the
\* other templates keep their order, and both return true; on a list of one
\* template both leave the list as it is and still return true.
C5_TemplateWrap ==
    /\ (/\ last.op = "move_template_up"
        /\ PreTemplates # <<>>
        /\ PreTemplates[1].path = abspath(platform, last.arg))
       => (/\ last.ok
           /\ Templates(config) = Tail(PreTemplates) \o <<PreTemplates[1]>>
           /\ (Len(PreTemplates) = 1 => Templates(config) = PreTemplates))
    /\ (/\ last.op = "move_template_down"
        /\ PreTemplates # <<>>
        /\ PreTemplates[Len(PreTemplates)].path = abspath(platform, last.arg))
       => (/\ last.ok
           /\ Templates(config) =
                 <<PreTemplates[Len(PreTemplates)]>>
                    \o SubSeq(PreTemplates, 1, Len(PreTemplates) - 1)
           /\ (Len(PreTemplates) = 1 => Templates(config) = PreTemplates))

\* the first of three templates was moved up and is now the last
C5_Witness ==
    /\ last.op = "move_template_up"
    /\ Len(PreTemplates) = 3
    /\ PreTemplates[1].path = abspath(platform, last.arg)
    /\ last.ok
    /\ Templates(config)[3] = PreTemplates[1]
    /\ Templates(config)[1] = PreTemplates[2]

----------------------------------------------------------------------------
(* Claims about clear_missing_files, under SpecClean *)

\* the entries of list s whose file is among files
Surviving(s, files) ==
    LET Present(e) == exists(platform, files, e.path)
    IN  SelectSeq(s, Present)

\* the listed registry values whose file is not among files
MissingValues(reg, files) ==
    {i \in 1..Len(reg) : /\ reg[i].isfile /\ reg[i].value # <<>>
                         /\ ~exists(platform, files, reg[i].value)}

\* C8: clear_missing_files drops from launcher_recents, td_recents and
\* templates exactly the entries whose path does not exist on disk, keeps the
\* order of the others, and returns the number of entries removed (on the
\* registry platform the blanked registry values count as removed too).
C8_ClearMissing ==
    last.op = "clear_missing_files"
    => LET files == last.arg.files
           lr == Get(last.pre, "launcher_recents", <<>>)
           td == Get(last.pre, "td_recents", <<>>)
           t == Templates(last.pre)
           gone == MissingValues(last.arg.registry, files)
       IN  /\ Get(config, "launcher_recents", <<>>) = Surviving(lr, files)
           /\ Get(config, "td_recents", <<>>) = Surviving(td, files)
           /\ Templates(config) = Surviving(t, files)
           /\ \A i \in 1..Len(registry) :
                 registry[i].value = IF i \in gone THEN <<>>
                                     ELSE last.arg.registry[i].value
           /\ last.n = (Len(lr) - Len(Surviving(lr, files)))
                       + (Len(td) - Len(Surviving(td, files)))
                       + (Len(t) - Len(Surviving(t, files)))
                       + Cardinality(gone)

\* launcher_recents held a file that exists and one that is missing, the only
\* template was missing, nothing else was: 2 is returned
C8_Witness ==
    /\ last.op = "clear_missing_files"
    /\ Len(Get(last.pre, "launcher_recents", <<>>)) = 2
    /\ Len(Get(config, "launcher_recents", <<>>)) = 1
    /\ Len(Templates(last.pre)) = 1
    /\ Templates(config) = <<>>
    /\ Get(last.pre, "td_recents", <<>>) = Get(config, "td_recents", <<>>)
    /\ registry = last.arg.registry
    /\ last.n = 2

----------------------------------------------------------------------------
(* Claims about the version resolver, under SpecVersions *)

Installed == Range(panel.installed)

\* the installed keys that are not newer than the required version
NotNewer ==
    {k \in Installed :
        LexLeq(parse_version_string(k), parse_version_string(panel.required))}

\* C6: when the required version is not installed and some version is, the
\* default selection is the newest installed version whose (year, build) is
\* <= the required one, and the oldest installed version when every installed
\* version is newer than required.
C6_FallbackMatch ==
    (/\ panel.shown
     /\ panel.required # None
     /\ panel.required \notin Installed
     /\ Installed # {})
    => LET d == panel.default_version
       IN  IF NotNewer # {}
           THEN /\ d \in NotNewer
                /\ \A k \in NotNewer :
                      LexLeq(parse_version_string(k), parse_version_string(d))
           ELSE /\ d \in Installed
                /\ \A k \in Installed :
                      LexLeq(parse_version_string(d), parse_version_string(k))

\* installed 2021.100, 2022.200 and 2023.300, required 2022.999: the default
\* is 2022.200
C6_Witness ==
    /\ panel.shown
    /\ Installed = {TD(<<Num(2021), Num(100)>>), TD(<<Num(2022), Num(200)>>),
                    TD(<<Num(2023), Num(300)>>)}
    /\ panel.required = TD(<<Num(2022), Num(999)>>)
    /\ panel.default_version = TD(<<Num(2022), Num(200)>>)

\* Product.YYYY.BBBBB: a product prefix and two numeric segments
WellFormed(k) ==
    /\ k.prefix \in {"TouchDesigner.", "TouchPlayer."}
    /\ Len(k.parts) = 2
    /\ k.parts[1].num /\ k.parts[2].num

\* int() raises on one of the segments parse_version_string converts
ParseFails(k) ==
    \/ k.parts = <<>>
    \/ ~k.parts[1].num
    \/ (Len(k.parts) > 1 /\ ~k.parts[2].num)

\* C7: parse_version_string returns (-1, -1) on any parse failure, and the
\* sorted version keys list the well-formed keys in strictly ascending
\* (year, build) order, every malformed key before all well-formed ones.
C7_VersionOrdering ==
    panel.shown
    => LET s == panel.version_keys
       IN  /\ ParseFails(panel.required)
                => parse_version_string(panel.required) = <<-1, -1>>
           /\ Range(s) = Installed /\ Len(s) = Len(panel.installed)
           /\ \A i \in 1..Len(s) :
                 ParseFails(s[i]) => parse_version_string(s[i]) = <<-1, -1>>
           /\ \A i, j \in 1..Len(s) :
                 /\ (i < j /\ WellFormed(s[i]) /\ WellFormed(s[j]))
                       => \/ s[i].parts[1].val < s[j].parts[1].val
                          \/ /\ s[i].parts[1].val = s[j].parts[1].val
                             /\ s[i].parts[2].val < s[j].parts[2].val
                 /\ (~WellFormed(s[i]) /\ WellFormed(s[j])) => i < j

\* a malformed key was discovered after two well-formed keys, the newer one
\* first, and the sorted list puts it first and the older one before the newer
C7_Witness ==
    /\ panel.shown
    /\ Len(panel.installed) = 3
    /\ ~WellFormed(panel.installed[3])
    /\ WellFormed(panel.installed[1]) /\ WellFormed(panel.installed[2])
    /\ LexLess(parse_version_string(panel.installed[2]),
               parse_version_string(panel.installed[1]))
    /\ panel.version_keys = <<panel.installed[3], panel.installed[2],
                              panel.installed[1]>>

----------------------------------------------------------------------------
(* Claims about persistence, under SpecStore *)

\* C11 (as claimed): every operation of the store that changes the in-memory
\* document saves it before it returns: a step of the running store that
\* changes the document, with no I/O error in the way, leaves config.json
\* holding the in-memory document.
C11_PersistAfterMutation ==
    [][(pc = "running" /\ config' # config /\ ~IoError(disk))
        => (disk'.kind = "object" /\ disk'.doc = config')]_vars

----------------------------------------------------------------------------
(* The launcher window: selecting, browsing and launching *)

\* the files the user picks in the window
UiPaths(plat) == {PathA(plat), PathB(plat)}

\* what the version radio button (or, without it, build_info) hands to a launch
LaunchVersions == Range(versions) \cup {build_info}

\* LauncherApp._build_recent_files_list, the part that changes state: the
\* active file is put at the top of the list get_recent_files returned.  With
\* merged = False that list is the launcher_recents list of the document
\* itself (when the key is present), so the document changes; a merged list,
\* and the default of a missing key, is a new list.
_build_recent_files_list(plat, cfg, active, t) ==
    LET recent_files == Get(cfg, "launcher_recents", <<>>)
        abs_active == abspath(plat, active)
        hits == {i \in 1..Len(recent_files) :
                    abspath(plat, _get_path_from_entry(recent_files[i])) = abs_active}
        first == IF hits = {} THEN 0 ELSE CHOOSE i \in hits : \A j \in hits : i <= j
        top == IF first > 1
               THEN <<recent_files[first]>> \o SubSeq(recent_files, 1, first - 1)
                       \o SubSeq(recent_files, first + 1, Len(recent_files))
               ELSE IF first = 0
               THEN <<DictEntry(abs_active, "launcher", t)>> \o recent_files
               ELSE recent_files
    IN  IF active = <<>> \/ Get(cfg, "show_full_history", TRUE)
           \/ "launcher_recents" \notin DOMAIN cfg
        THEN cfg
        ELSE Put(cfg, "launcher_recents", top)

_launch_project_without_lookup(file_path, version, promote, spawn_ok) ==
    LET added == add_recent_file(platform, config, file_path, now)
        r == IF promote THEN save(added, disk) ELSE [ok |-> FALSE, disk |-> disk]
        cfg == IF promote
               THEN _build_recent_files_list(platform, added, file_path, now)
               ELSE config
        executable == version \in Range(versions)
        started == spawn_ok
    IN  [config |-> cfg,
         disk |-> r.disk,
         ui |-> [ui EXCEPT !.active_manual_file =
                              IF promote THEN file_path ELSE @,
                           !.adds = IF promote THEN @ + 1 ELSE @,
                           !.launches = IF started THEN @ + 1 ELSE @],
         now |-> IF promote THEN now + 1 ELSE now,
         pc |-> IF started THEN "closed" ELSE pc,        \* dpg.stop_dearpygui()
         started |-> started,
         version |-> version]

\* LauncherApp._launch_project: the document, the disk and the window after
\* it; spawn_ok says whether subprocess.Popen starts the runtime
_launch_project(file_path, version, promote, spawn_ok) ==
    LET added == add_recent_file(platform, config, file_path, now)
        r == IF promote THEN save(added, disk) ELSE [ok |-> FALSE, disk |-> disk]
        cfg == IF promote
               THEN _build_recent_files_list(platform, added, file_path, now)
               ELSE config
        executable == version \in Range(versions)
        started == executable /\ spawn_ok
    IN  [config |-> cfg,
         disk |-> r.disk,
         ui |-> [ui EXCEPT !.active_manual_file =
                              IF promote THEN file_path ELSE @,
                           !.adds = IF promote THEN @ + 1 ELSE @,
                           !.launches = IF started THEN @ + 1 ELSE @],
         now |-> IF promote THEN now + 1 ELSE now,
         pc |-> IF started THEN "closed" ELSE pc,        \* dpg.stop_dearpygui()
         started |-> started,
         version |-> version]

\* the results of _launch_project become the next state
Launched(op, m) ==
    /\ config' = m.config
    /\ disk' = m.disk
    /\ ui' = m.ui
    /\ now' = m.now
    /\ pc' = m.pc
    /\ last' = Call(op, ui.selected_file, m.started, 0, m.version)
    /\ UNCHANGED <<platform, native, resolver, analysis, install>>

\* _on_file_selected, a first click on a row: the file becomes the selection
OnFileSelected ==
    /\ pc = "running"
    /\ \E p \in UiPaths(platform) :
          /\ exists(platform, fsFiles, p)
          /\ ui' = [ui EXCEPT !.selected_file = p]
          /\ last' = Call("select", p, TRUE, 0, <<>>)
    /\ UNCHANGED <<platform, pc, config, disk, native, now, resolver, analysis, install>>

\* _on_browse: the file picked becomes the selection and the active file, and
\* the list is rebuilt
OnBrowse ==
    /\ pc = "running"
    /\ \E p \in UiPaths(platform) :
          /\ ui' = [ui EXCEPT !.selected_file = p, !.active_manual_file = p]
          /\ config' = _build_recent_files_list(platform, config, p, now)
          /\ last' = Call("browse", p, TRUE, 0, <<>>)
    /\ UNCHANGED <<platform, pc, disk, native, now, resolver, analysis, install>>

\* _on_toggle_full_history: the preference is saved, then the list is rebuilt
OnToggleFullHistory ==
    /\ pc = "running"
    /\ LET cfg == Put(config, "show_full_history",
                      ~Get(config, "show_full_history", TRUE))
           r == save(cfg, disk)
       IN  /\ config' = _build_recent_files_list(platform, cfg,
                                                 ui.active_manual_file, now)
           /\ disk' = r.disk
           /\ last' = Call("toggle_full_history", <<>>, r.ok, 0, <<>>)
    /\ UNCHANGED <<platform, pc, native, now, resolver, app>>

\* _on_launch with promote = True: the launch button, the Enter key and the
\* end of the countdown
OnLaunch ==
    /\ pc = "running"
    /\ now <= MaxTime
    /\ ui.selected_file # <<>>
    /\ \E version \in LaunchVersions, spawn_ok \in BOOLEAN :
          Launched("launch",
                   _launch_project(ui.selected_file, version, TRUE, spawn_ok))

\* _on_file_selected, the second click of a double click: launches with the
\* selected version if it is installed, without promoting the file
OnDoubleClick ==
    /\ pc = "running"
    /\ ui.selected_file # <<>>
    /\ exists(platform, fsFiles, ui.selected_file)
    /\ \E version \in LaunchVersions \cap Range(versions), spawn_ok \in BOOLEAN :
          Launched("double_click",
                   _launch_project(ui.selected_file, version, FALSE, spawn_ok))

\* the quick-launch shortcut: the top template with the newest version
OnQuickLaunch ==
    /\ pc = "running"
    /\ Templates(config) # <<>>
    /\ versions # <<>>
    /\ \E spawn_ok \in BOOLEAN :
          LET version_keys == get_sorted_version_keys(versions)
              m == _launch_project(_get_path_from_entry(Templates(config)[1]),
                                   version_keys[Len(version_keys)], FALSE, spawn_ok)
          IN  Launched("quick_launch", m)

\* the documents an earlier session left
LauncherDocs(plat) ==
    {EmptyDoc,
     [templates |-> <<StrEntry(PathA(plat))>>],
     [launcher_recents |-> <<DictEntry(PathA(plat), "launcher", 1)>>],
     [launcher_recents |-> <<DictEntry(PathA(plat), "launcher", 1)>>,
      show_full_history |-> FALSE]}

InitLauncher ==
    /\ platform \in Platforms
    /\ pc = "start"
    /\ config = EmptyDoc
    /\ disk \in {DiskWith(doc) : doc \in LauncherDocs(platform)}
    /\ registry = <<>>
    /\ sfl = <<>>
    /\ fsFiles = AllFiles(platform)
    /\ now = 1
    /\ last = NoCall
    /\ versions \in {<<>>, <<TD(<<Num(2022), Num(200)>>)>>}
    /\ build_info \in {None, TD(<<Num(2022), Num(200)>>), TD(<<Num(2023), Num(300)>>)}
    /\ panel = NoPanel
    /\ ui = NoUi
    /\ analysis = NoAnalysis
    /\ install = NoInstall
    /\ host = NoHost

NextLauncher ==
    \/ Construct
    \/ OnFileSelected
    \/ OnBrowse
    \/ OnToggleFullHistory
    \/ OnLaunch
    \/ OnDoubleClick
    \/ OnQuickLaunch

SpecLauncher == InitLauncher /\ [][NextLauncher]_vars

----------------------------------------------------------------------------
(* Claims about the launcher window, under SpecLauncher *)

\* C12 (as claimed): add_recent_file is called exactly once per launch that
\* started the runtime and never otherwise, and selecting or browsing alone
\* never changes launcher_recents.
C12_AddOncePerLaunch ==
    /\ ui.adds = ui.launches
    /\ last.op \in {"select", "browse"}
          => Get(config, "launcher_recents", <<>>)
                = Get(last.pre, "launcher_recents", <<>>)

\* the part of C12 about the count alone
AddsEqualLaunches == ui.adds = ui.launches

\* the part of C12 about selection and browsing alone
BrowsingLeavesRecents ==
    last.op \in {"select", "browse"}
       => Get(config, "launcher_recents", <<>>)
             = Get(last.pre, "launcher_recents", <<>>)

----------------------------------------------------------------------------
(* Removing a recent file from lists kept from an earlier session *)

NextRemove == Construct \/ RemoveRecentFile

SpecRemove == InitClean /\ [][NextRemove]_vars

\* the equality rule of the specification: case-insensitive, slash-normalized,
\* absolute-path comparison, on every platform
EqualityKey(p) ==
    LET a == abspath(platform, p)
    IN  [i \in 1..Len(a) |-> IF a[i] = "/" /\ platform = "Windows" THEN "\\"
                             ELSE lower(a[i])]

EqualUnderRule(p, q) == EqualityKey(p) = EqualityKey(q)

\* the entries of list s that do not equal p under the equality rule
NotNaming(s, p) ==
    LET Other(e) == ~EqualUnderRule(e.path, p)
    IN  SelectSeq(s, Other)

\* C13 (as claimed): remove_recent_file(p) removes from launcher_recents and
\* from td_recents every entry equal to p under the equality rule, and leaves
\* the other entries of both lists, and the templates, unchanged and in order.
C13_RemoveRecentFile ==
    last.op = "remove_recent_file"
    => LET lr == Get(last.pre, "launcher_recents", <<>>)
           td == Get(last.pre, "td_recents", <<>>)
       IN  /\ Get(config, "launcher_recents", <<>>) = NotNaming(lr, last.arg)
           /\ Get(config, "td_recents", <<>>) = NotNaming(td, last.arg)
           /\ Templates(config) = Templates(last.pre)

\* The part of C13 the code keeps: the same with the comparison the code
\* makes, os.path.normcase, which folds case on Windows only.
RemoveByNormcase ==
    last.op = "remove_recent_file"
    => LET Other(e) == ~SameFile(e.path, last.arg)
       IN  /\ Get(config, "launcher_recents", <<>>)
                 = SelectSeq(Get(last.pre, "launcher_recents", <<>>), Other)
           /\ Get(config, "td_recents", <<>>)
                 = SelectSeq(Get(last.pre, "td_recents", <<>>), Other)
           /\ Templates(config) = Templates(last.pre)

----------------------------------------------------------------------------
(* Reconciling the two histories: lists kept from an earlier session *)

\* launcher_recents of an earlier session: add_recent_file stores the most
\* recent file first; promoting the active file of a local-only list
\* (_build_recent_files_list) can leave an older entry on top
MergeRecents(plat) ==
    StoredRecents(plat)
    \cup {[i \in 1..Len(ps) |-> DictEntry(ps[i], "launcher", i)] :
             ps \in DistinctSeqs(StoredPaths(plat), MaxStored)}

\* td_recents_timestamp as the companion extension wrote it, if it did
SyncTimes(plat) == IF plat = "Darwin" THEN {0, 1, 2} ELSE {0}

InitMerge ==
    /\ InitBase
    /\ registry \in RegistryStates(platform)
    /\ sfl \in SflStates(platform)
    /\ \E lr \in MergeRecents(platform), td \in TdLists(platform),
          ts \in SyncTimes(platform) :
          disk = DiskWith(Merge([launcher_recents |-> lr, td_recents |-> td],
                                IF ts = 0 THEN EmptyDoc
                                ELSE [td_recents_timestamp |-> ts]))

NextMerge == Construct \/ GetRecentFiles

SpecMerge == InitMerge /\ [][NextMerge]_vars

----------------------------------------------------------------------------
(* Claims about the reconciled history, under SpecMerge *)

\* the native history the merge reads, and the moment of its last sync
NativeRecents == TdRecents(platform, config, registry, sfl)
SyncedAt == Get(config, "td_recents_timestamp", 0)

\* the position of the first entry of list s with path p, 0 if there is none
FirstIndex(s, p) ==
    LET hits == {i \in 1..Len(s) : s[i].path = p}
    IN  IF hits = {} THEN 0 ELSE CHOOSE i \in hits : \A j \in hits : i <= j

\* some entry of list s names the file of path p
Shows(s, p) == \E i \in 1..Len(s) : SameFile(s[i].path, p)

\* the section of the property-list ordering an entry of the result is in:
\* 1 newer launcher entries, 2 native entries, 3 older launcher entries
Section(e) ==
    IF e.source = "td" THEN 2
    ELSE IF e.last_opened > SyncedAt THEN 1 ELSE 3

\* C14: on the property-list platform the merged history lists the launcher
\* entries opened after the native history was synced first, most recent
\* first, then the native entries in native order, then the older launcher
\* entries in stored order (an entry whose file is already listed is skipped).
C14_PropertyListOrder ==
    (last.op = "get_recent_files" /\ last.ok /\ platform = "Darwin")
    => LET out == last.out
       IN  /\ \A i, j \in 1..Len(out) :
                 i < j =>
                    /\ Section(out[i]) <= Section(out[j])
                    /\ (Section(out[i]) = 1 /\ Section(out[j]) = 1)
                          => out[i].last_opened >= out[j].last_opened
                    /\ (Section(out[i]) = 2 /\ Section(out[j]) = 2)
                          => FirstIndex(NativeRecents, out[i].path)
                                < FirstIndex(NativeRecents, out[j].path)
                    /\ (Section(out[i]) = 3 /\ Section(out[j]) = 3)
                          => FirstIndex(LauncherRecents, out[i].path)
                                < FirstIndex(LauncherRecents, out[j].path)
           /\ \A i \in 1..Len(out) :
                 IF Section(out[i]) = 2
                 THEN FirstIndex(NativeRecents, out[i].path) > 0
                 ELSE out[i] \in Range(LauncherRecents)
           /\ \A i \in 1..Len(LauncherRecents) :
                 /\ Shows(out, LauncherRecents[i].path)
                 /\ LauncherRecents[i].last_opened > SyncedAt
                       => LauncherRecents[i] \in Range(out)
           /\ \A i \in 1..Len(NativeRecents) : Shows(out, NativeRecents[i].path)

\* a newer launcher entry, a native entry and an older launcher entry, of
\* three files, are listed in this order; the older one is stored first
C14_Witness ==
    /\ last.op = "get_recent_files" /\ last.ok /\ platform = "Darwin"
    /\ Len(last.out) = 3
    /\ Section(last.out[1]) = 1
    /\ Section(last.out[2]) = 2
    /\ Section(last.out[3]) = 3
    /\ LauncherRecents = <<last.out[3], last.out[1]>>

\* the suffix of the first listed registry value holding path p
Suffix(p) ==
    LET hits == {i \in 1..Len(registry) :
                    registry[i].isfile /\ registry[i].value = p}
        i == CHOOSE h \in hits : \A k \in hits : registry[h].suffix <= registry[k].suffix
    IN  registry[i].suffix

\* C15: on the registry platform the merged history lists the native entries
\* first, in ascending order of the numeric suffix of their value name, then
\* the launcher entries not already listed, in stored order; with merged =
\* False the result is launcher_recents itself, on every platform.
C15_RegistryOrder ==
    /\ (last.op = "get_recent_files" /\ ~last.ok) => last.out = LauncherRecents
    /\ (last.op = "get_recent_files" /\ last.ok /\ platform = "Windows")
       => LET out == last.out
              IsNative(e) == e.source = "td"
          IN  /\ \A i, j \in 1..Len(out) :
                    i < j =>
                       /\ IsNative(out[j]) => IsNative(out[i])
                       /\ (IsNative(out[i]) /\ IsNative(out[j]))
                             => Suffix(out[i].path) < Suffix(out[j].path)
                       /\ (~IsNative(out[i]) /\ ~IsNative(out[j]))
                             => FirstIndex(LauncherRecents, out[i].path)
                                   < FirstIndex(LauncherRecents, out[j].path)
              /\ \A i \in 1..Len(out) :
                    IF IsNative(out[i])
                    THEN \E k \in 1..Len(registry) :
                            registry[k].isfile /\ registry[k].value = out[i].path
                    ELSE /\ out[i] \in Range(LauncherRecents)
                         /\ \A k \in 1..Len(registry) :
                               registry[k].value # <<>>
                                  => ~SameFile(registry[k].value, out[i].path)
              /\ \A k \in 1..Len(registry) :
                    (registry[k].isfile /\ registry[k].value # <<>>)
                       => Shows(out, registry[k].value)
              /\ \A i \in 1..Len(LauncherRecents) :
                    Shows(out, LauncherRecents[i].path)

\* the registry enumerates file1 before file0; the merged history lists the
\* value of file0, then that of file1, and skips the launcher entries, whose
\* files are already listed
C15_Witness ==
    /\ last.op = "get_recent_files" /\ last.ok /\ platform = "Windows"
    /\ Len(registry) = 2
    /\ registry[1].suffix = 1 /\ registry[2].suffix = 0
    /\ Len(LauncherRecents) = 2
    /\ Len(last.out) = 2
    /\ last.out[1].path = registry[2].value
    /\ last.out[2].path = registry[1].value
    /\ last.out[1].source = "td" /\ last.out[2].source = "td"

----------------------------------------------------------------------------
(* Discovery of the installed versions *)

MaxInstalls == 2    \* number of installations on the machine

Products == {"TouchDesigner", "TouchPlayer"}
DiscoveryNumbers == {<<2022, 200>>, <<2023, 300>>}

\* What the scan can meet, one record per product and version.
\* On Windows, for TouchDesigner: listed says that the registry has the
\* version value and a Path value naming it, exe that bin\TouchDesigner.exe
\* exists there; for TouchPlayer: exe says that bin\TouchPlayer.exe exists in
\* the installation of that version.  Elsewhere: listed says that
\* /Applications has the bundle with an Info.plist giving the version, exe
\* that the bundle has Contents/MacOS/<product>.
HostInstalls ==
    {s \in SeqsUpTo([product : Products, number : DiscoveryNumbers,
                     listed : BOOLEAN, exe : BOOLEAN], MaxInstalls) :
        \A i, j \in 1..Len(s) :
           i # j => <<s[i].product, s[i].number>> # <<s[j].product, s[j].number>>}

\* the executable of product and version number, as a path
Executable(product, number) == <<product, number>>

\* a discovered version: its key and the executable path recorded for it
VersionEntry(product, number) ==
    [key |-> Key(IF product = "TouchDesigner" THEN "TouchDesigner."
                 ELSE "TouchPlayer.",
                 <<Num(number[1]), Num(number[2])>>),
     number |-> number,
     executable |-> Executable(product, number)]

EntriesOf(installs) ==
    [i \in 1..Len(installs) |-> VersionEntry(installs[i].product, installs[i].number)]

\* TDManager._query_windows_registry
_query_windows_registry(installs, product) ==
    LET Accepted(r) == r.product = product /\ r.listed /\ r.exe
    IN  EntriesOf(SelectSeq(installs, Accepted))

\* TDManager._derive_windows_player_versions
_derive_windows_player_versions(td_versions, installs) ==
    LET HasPlayer(e) ==
            \E i \in 1..Len(installs) :
               /\ installs[i].product = "TouchPlayer"
               /\ installs[i].number = e.number
               /\ installs[i].exe
        with_player == SelectSeq(td_versions, HasPlayer)
    IN  [i \in 1..Len(with_player) |->
            VersionEntry("TouchPlayer", with_player[i].number)]

\* TDManager._query_mac_applications
_query_mac_applications(installs, product) ==
    LET Accepted(r) == r.product = product /\ r.listed
    IN  EntriesOf(SelectSeq(installs, Accepted))

\* TDManager.discover_versions
discover_versions(plat, installs) ==
    IF plat = "Windows"
    THEN LET td == _query_windows_registry(installs, "TouchDesigner")
         IN  [versions |-> td,
              player_versions |-> _derive_windows_player_versions(td, installs)]
    ELSE [versions |-> _query_mac_applications(installs, "TouchDesigner"),
          player_versions |-> _query_mac_applications(installs, "TouchPlayer")]

\* a discovery scan; last.arg keeps what was installed at scan time, last.out
\* the two sets found
DiscoverVersions ==
    /\ pc = "running"
    /\ LET found == discover_versions(platform, host.installs)
       IN  /\ versions' = [i \in 1..Len(found.versions) |-> found.versions[i].key]
           /\ last' = Call("discover_versions", host.installs, TRUE, 0, found)
    /\ UNCHANGED <<platform, pc, config, disk, native, now, build_info, panel, app>>

\* the launcher is running on some machine
InitManager ==
    /\ platform \in Platforms
    /\ pc = "running"
    /\ config = DEFAULT_CONFIG
    /\ disk = [DiskWith(EmptyDoc) EXCEPT !.kind = "absent"]
    /\ registry = <<>>
    /\ sfl = <<>>
    /\ fsFiles = AllFiles(platform)
    /\ now = 1
    /\ last = NoCall
    /\ versions = <<>>
    /\ build_info = None
    /\ panel = NoPanel
    /\ ui = NoUi
    /\ analysis = NoAnalysis
    /\ install = NoInstall

InitDiscover ==
    /\ InitManager
    /\ \E installs \in HostInstalls : host = [NoHost EXCEPT !.installs = installs]

NextDiscover == DiscoverVersions

SpecDiscover == InitDiscover /\ [][NextDiscover]_vars

----------------------------------------------------------------------------
(* Claims about discovery, under SpecDiscover *)

\* the executable path exists on the machine
ExecutableExists(installs, path) ==
    \E i \in 1..Len(installs) :
       installs[i].exe /\ Executable(installs[i].product, installs[i].number) = path

\* C16 (as claimed): after a discovery scan, on every platform, every version
\* in the installed set and in the player set maps to an executable that
\* exists at scan time.
C16_ExecutableExists ==
    last.op = "discover_versions"
    => /\ \A i \in 1..Len(last.out.versions) :
             ExecutableExists(last.arg, last.out.versions[i].executable)
       /\ \A i \in 1..Len(last.out.player_versions) :
             ExecutableExists(last.arg, last.out.player_versions[i].executable)

\* The part of C16 the code keeps: the same on the registry platform.
RegistryScanChecksExecutable ==
    (last.op = "discover_versions" /\ platform = "Windows")
    => /\ \A i \in 1..Len(last.out.versions) :
             ExecutableExists(last.arg, last.out.versions[i].executable)
       /\ \A i \in 1..Len(last.out.player_versions) :
             ExecutableExists(last.arg, last.out.player_versions[i].executable)

----------------------------------------------------------------------------
(* Inspection of a project file with the external tool *)

\* Text is a sequence of items: words, and the whitespace characters " ",
\* "\t" and "\n".  The tool's standard output is kept as its lines.
Blank == {" ", "\t", "\n"}

\* len() of an item
CharLen(item) ==
    CASE item = "TouchDesigner" -> 13
      [] item = "2023.34567" -> 10
      [] item = "build" -> 5
      [] OTHER -> 1

RECURSIVE TextLen(_)
TextLen(text) == IF text = <<>> THEN 0 ELSE CharLen(Head(text)) + TextLen(Tail(text))

\* str.strip()
strip(text) ==
    LET solid == {i \in 1..Len(text) : text[i] \notin Blank}
    IN  IF solid = {} THEN <<>>
        ELSE SubSeq(text, CHOOSE i \in solid : \A j \in solid : i <= j,
                          CHOOSE i \in solid : \A j \in solid : i >= j)

RECURSIVE join(_)
\* '\n'.join(lines)
join(lines) ==
    IF lines = <<>> THEN <<>>
    ELSE IF Len(lines) = 1 THEN lines[1]
    ELSE lines[1] \o <<"\n">> \o join(Tail(lines))

\* text.split(sep)[-1] for seps = {sep}: what follows the last separator
LastField(text, seps) ==
    LET cuts == {i \in 1..Len(text) : text[i] \in seps}
        cut == IF cuts = {} THEN 0 ELSE CHOOSE i \in cuts : \A j \in cuts : i >= j
    IN  SubSeq(text, cut + 1, Len(text))

\* [line.strip() for line in build_info.split('\n') if line.strip()]
info_split(lines) ==
    LET stripped == [i \in 1..Len(lines) |-> strip(lines[i])]
        Solid(line) == line # <<>>
    IN  SelectSeq(stripped, Solid)

NoVersion == <<>>                                  \* Python's None
BuildOption(version_number) == <<"TouchDesigner", ".">> \o version_number

\* TDManager.get_toeexpand_path, as whether it finds the tool: tool says that
\* the file is where the platform's rule looks for it
get_toeexpand_path(plat, vs, tool) ==
    IF plat = "Windows" THEN tool ELSE vs # <<>> /\ tool

\* an except clause for class handler catches the exception exc
Catches(handler, exc) == handler = "Exception" \/ handler = exc

\* TDManager.inspect_toe_file with the class its except clause names: the
\* value returned and whether an exception escapes
InspectWith(handler, plat, vs, run) ==
    LET exc == IF ~run.spawn_ok THEN "OSError"                   \* Popen
               ELSE IF ~run.decodable THEN "UnicodeDecodeError"  \* out.decode
               ELSE "none"
        build_info_text == join(run.stdout)
        lines == info_split(run.stdout)
    IN  IF ~run.file_exists THEN [raised |-> FALSE, out |-> NoVersion]
        ELSE IF ~get_toeexpand_path(plat, vs, run.tool)
        THEN [raised |-> FALSE, out |-> NoVersion]
        ELSE IF exc # "none"
        THEN [raised |-> ~Catches(handler, exc), out |-> NoVersion]
        ELSE IF build_info_text = <<>> \/ TextLen(strip(build_info_text)) < 5
        THEN [raised |-> FALSE, out |-> NoVersion]
        ELSE IF Len(lines) < 2 THEN [raised |-> FALSE, out |-> NoVersion]
        ELSE [raised |-> FALSE, out |-> BuildOption(LastField(lines[2], {" "}))]

inspect_toe_file_catching_oserror(plat, vs, run) ==
    InspectWith("OSError", plat, vs, run)

\* TDManager.inspect_toe_file
inspect_toe_file(plat, vs, run) == InspectWith("Exception", plat, vs, run)

\* what the tool can print
HeaderLine == <<"build">>
VersionLine == <<"TouchDesigner", " ", "build", " ", "2023.34567">>
ToolOutputs ==
    {<<>>,
     <<<<" ">>>>,
     <<HeaderLine>>,
     <<HeaderLine, VersionLine>>,
     <<HeaderLine, <<"build", "\t", "2023.34567">>>>,
     <<HeaderLine, <<" ", "build", " ", " ", "2023.34567", " ">>>>,
     <<<<>>, HeaderLine, <<" ">>, VersionLine, <<>>>>,
     <<HeaderLine, VersionLine, HeaderLine>>,
     <<<<"v">>, <<"v">>>>,
     <<<<"v">>, <<"v", " ", "v">>>>}

ToolRuns ==
    [file_exists : BOOLEAN, tool : BOOLEAN, spawn_ok : BOOLEAN,
     decodable : BOOLEAN, returncode : {0, 1}, stdout : ToolOutputs]

\* a call of inspect_toe_file; last.arg keeps the run, last.ok that no
\* exception escaped, last.out the value returned
InspectToeFile ==
    /\ pc = "running"
    /\ LET r == inspect_toe_file(platform, versions, host.run)
       IN  last' = Call("inspect_toe_file", host.run, ~r.raised, 0, r.out)
    /\ UNCHANGED <<platform, pc, config, disk, native, now, resolver, app>>

InitInspect ==
    /\ InitManager
    /\ \E installs \in {<<>>, <<[product |-> "TouchDesigner", number |-> <<2022, 200>>,
                                listed |-> TRUE, exe |-> TRUE]>>},
          run \in ToolRuns :
          host = [NoHost EXCEPT !.installs = installs, !.run = run]

NextInspect == DiscoverVersions \/ InspectToeFile

SpecInspect == InitInspect /\ [][NextInspect]_vars

----------------------------------------------------------------------------
(* Claims about inspection, under SpecInspect *)

\* the tool was found and run on an existing file, and its output decoded
ToolRan(run) ==
    /\ run.file_exists /\ run.spawn_ok /\ run.decodable
    /\ get_toeexpand_path(platform, versions, run.tool)

\* the lines of the output that are not empty, without surrounding whitespace
NonEmptyLines(run) == info_split(run.stdout)

\* C17 (as claimed): whatever the exit status of the tool, when its output has
\* at least two non-empty lines the result is the product name joined by '.'
\* with the whitespace-last token of the second non-empty line.
C17_ExitCodeTolerated ==
    (/\ last.op = "inspect_toe_file"
     /\ ToolRan(last.arg)
     /\ Len(NonEmptyLines(last.arg)) >= 2)
    => last.out = BuildOption(LastField(NonEmptyLines(last.arg)[2], Blank))

\* The part of C17 the code keeps: the same for an output of five characters
\* or more whose second non-empty line separates its tokens by spaces.
SpaceSeparatedVersion ==
    (/\ last.op = "inspect_toe_file"
     /\ ToolRan(last.arg)
     /\ Len(NonEmptyLines(last.arg)) >= 2
     /\ TextLen(strip(join(last.arg.stdout))) >= 5
     /\ "\t" \notin Range(NonEmptyLines(last.arg)[2]))
    => last.out = BuildOption(LastField(NonEmptyLines(last.arg)[2], Blank))

\* C18: inspect_toe_file never raises and reports every failure as None: a
\* missing file, a missing tool, a tool that cannot be started, empty output,
\* fewer than two non-empty lines, a decode failure.
C18_InspectNeverRaises ==
    last.op = "inspect_toe_file"
    => /\ last.ok
       /\ (\/ ~last.arg.file_exists
           \/ ~get_toeexpand_path(platform, versions, last.arg.tool)
           \/ ~last.arg.spawn_ok
           \/ ~last.arg.decodable
           \/ Len(NonEmptyLines(last.arg)) < 2)
          => last.out = NoVersion

\* the tool ran on an existing file and printed bytes that are not UTF-8:
\* None was returned and nothing was raised
C18_Witness ==
    /\ last.op = "inspect_toe_file"
    /\ last.arg.file_exists /\ last.arg.spawn_ok
    /\ get_toeexpand_path(platform, versions, last.arg.tool)
    /\ ~last.arg.decodable
    /\ last.ok
    /\ last.out = NoVersion

----------------------------------------------------------------------------
(* The download URL of a version *)

\* A version key is the sequence of its dot-separated segments, a URL the
\* sequence of its pieces; no URL is Python's None.
NoUrl == <<>>
UrlBase == "https://download.derivative.ca/"

\* platform.machine() of the hosts, and str.lower() of it
Machines == {"arm64", "aarch64", "ARM64", "x86_64", "AMD64", "riscv64"}
lower_machine(m) ==
    CASE m = "ARM64" -> "arm64"
      [] m = "AMD64" -> "amd64"
      [] OTHER -> m

generate_download_url_unknown_arm(plat, machine, build_option) ==
    IF Len(build_option) < 3 THEN NoUrl
    ELSE LET product == build_option[1]
             year == build_option[2]
             build == build_option[3]
             extension == IF plat = "Windows" THEN ".exe" ELSE ".dmg"
             arch_suffix ==
                 IF plat = "Windows" THEN <<>>
                 ELSE IF lower_machine(machine) \in {"x86_64", "amd64"}
                 THEN <<".intel">>
                 ELSE <<".arm64">>
             url_product == IF product = "TouchPlayer" /\ plat # "Windows"
                            THEN product ELSE "TouchDesigner"
         IN  IF year \in {"2017", "2018"} /\ plat = "Windows"
             THEN <<UrlBase, "TouchDesigner099", ".", year, ".", build,
                    ".64-Bit", extension>>
             ELSE IF year = "2019" /\ plat = "Windows"
             THEN <<UrlBase, "TouchDesigner099", ".", year, ".", build, extension>>
             ELSE <<UrlBase, url_product, ".", year, ".", build>>
                     \o arch_suffix \o <<extension>>

\* TDManager.generate_download_url
generate_download_url(plat, machine, build_option) ==
    IF Len(build_option) < 3 THEN NoUrl
    ELSE LET product == build_option[1]
             year == build_option[2]
             build == build_option[3]
             extension == IF plat = "Windows" THEN ".exe" ELSE ".dmg"
             arch_suffix ==
                 IF plat = "Windows" THEN <<>>
                 ELSE IF lower_machine(machine) \in {"arm64", "aarch64"}
                 THEN <<".arm64">>
                 ELSE <<".intel">>
             url_product == IF product = "TouchPlayer" /\ plat # "Windows"
                            THEN product ELSE "TouchDesigner"
         IN  IF year \in {"2017", "2018"} /\ plat = "Windows"
             THEN <<UrlBase, "TouchDesigner099", ".", year, ".", build,
                    ".64-Bit", extension>>
             ELSE IF year = "2019" /\ plat = "Windows"
             THEN <<UrlBase, "TouchDesigner099", ".", year, ".", build, extension>>
             ELSE <<UrlBase, url_product, ".", year, ".", build>>
                     \o arch_suffix \o <<extension>>

\* the version keys handed to generate_download_url
UrlYears == {"2017", "2018", "2019", "2023"}
UrlKeys ==
    {<<"">>, <<"TouchDesigner">>, <<"TouchDesigner", "2023">>}
    \cup {<<p, y, "34567">> : p \in Products, y \in UrlYears}
    \cup {<<p, y, "34567", "1">> : p \in Products, y \in UrlYears}

\* a call of generate_download_url; last.arg keeps the host's CPU and the key
GenerateDownloadUrl ==
    /\ pc = "running"
    /\ \E build_option \in UrlKeys :
          last' = Call("generate_download_url",
                       [machine |-> host.machine, key |-> build_option], TRUE, 0,
                       generate_download_url(platform, host.machine, build_option))
    /\ UNCHANGED <<platform, pc, config, disk, native, now, resolver, app>>

InitUrl ==
    /\ InitManager
    /\ \E m \in Machines : host = [NoHost EXCEPT !.machine = m]

NextUrl == GenerateDownloadUrl

SpecUrl == InitUrl /\ [][NextUrl]_vars

----------------------------------------------------------------------------
(* Claims about the download URL, under SpecUrl *)

\* the URL ends with the pieces of tail
EndsWith(url, tail) ==
    /\ Len(url) >= Len(tail)
    /\ SubSeq(url, Len(url) - Len(tail) + 1, Len(url)) = tail

\* C19: generate_download_url depends on product, year, build, platform and
\* architecture only; it returns None for a key of fewer than three segments;
\* on Windows the URL ends in <year>.<build>.exe without an architecture
\* suffix (with the legacy templates for 2017/2018 and 2019); elsewhere it
\* ends in .arm64.dmg on arm64/aarch64 hosts and in .intel.dmg on the others.
C19_DownloadUrl ==
    last.op = "generate_download_url"
    => LET key == last.arg.key
           url == last.out
           arm == lower_machine(last.arg.machine) \in {"arm64", "aarch64"}
       IN  /\ Len(key) < 3 => url = NoUrl
           /\ Len(key) >= 3 =>
                 /\ url # NoUrl
                 /\ url = generate_download_url(platform, last.arg.machine,
                                                SubSeq(key, 1, 3))
                 /\ platform = "Windows" =>
                       /\ ".arm64" \notin Range(url) /\ ".intel" \notin Range(url)
                       /\ IF key[2] \in {"2017", "2018"}
                          THEN EndsWith(url, <<"TouchDesigner099", ".", key[2], ".",
                                               key[3], ".64-Bit", ".exe">>)
                          ELSE IF key[2] = "2019"
                          THEN EndsWith(url, <<"TouchDesigner099", ".", key[2], ".",
                                               key[3], ".exe">>)
                          ELSE EndsWith(url, <<"TouchDesigner", ".", key[2], ".",
                                               key[3], ".exe">>)
                 /\ platform # "Windows" =>
                       EndsWith(url, <<key[2], ".", key[3],
                                       IF arm THEN ".arm64" ELSE ".intel", ".dmg">>)

\* TouchDesigner.2023.34567 on an ARM Mac: the URL ends in .arm64.dmg
C19_Witness ==
    /\ last.op = "generate_download_url"
    /\ platform = "Darwin"
    /\ last.arg.machine = "arm64"
    /\ last.arg.key = <<"TouchDesigner", "2023", "34567">>
    /\ EndsWith(last.out, <<"TouchDesigner", ".", "2023", ".", "34567",
                            ".arm64", ".dmg">>)

----------------------------------------------------------------------------
(* The background analysis of the selected file *)

MaxAnalyses == 3    \* number of background analyses started in one behaviour

\* analysis.workers[aid] is the worker thread started for request aid: the
\* file it inspects and where it is in _worker:
\*   "inspect"      before inspect_toe_file returns
\*   "check"        before the test aid == self.current_analysis_id
\*   "write_result" before the assignments of build_info, build_year, td_url,
\*                  td_uri and td_filename
\*   "write_cache"  before the assignment of version_cache[abs_path]
\*   "write_status" before analysis_status = "ready_for_ui"
\*   "done"         after the assignments
\*   "discarded"    after a test that found the id stale
\* analysis.result_of is the file whose required version build_info holds
\* (<<>> for None), analysis.td_uri_of the file whose download target td_url,
\* td_uri and td_filename hold, and analysis.latest the file of the latest
\* request.
WritePcs == {"write_result", "write_cache", "write_status"}

AnalyzeToeFile_without_cache ==
    /\ pc = "running"
    /\ \E p \in UiPaths(platform) :
          LET abs_path == abspath(platform, p)
          IN  IF abs_path \in {}
              THEN analysis' = [analysis EXCEPT !.latest = abs_path,
                                                !.result_of = abs_path,
                                                !.td_uri_of = abs_path,
                                                !.analysis_status = "ready_for_ui"]
              ELSE /\ analysis.current_analysis_id < MaxAnalyses
                   /\ analysis' =
                         [analysis EXCEPT
                             !.latest = abs_path,
                             !.result_of = <<>>,       \* self.build_info = None
                             !.current_analysis_id = @ + 1,
                             !.analysis_status = "loading",
                             !.workers = Append(@, [path |-> abs_path,
                                                    pc |-> "inspect"])]
    /\ UNCHANGED <<platform, pc, config, disk, native, now, last, resolver, ui, install>>

\* _update_version_panel -> _analyze_toe_file(p) on the UI thread: a cached
\* result is applied at once; otherwise a new id is taken and a worker started
AnalyzeToeFile ==
    /\ pc = "running"
    /\ \E p \in UiPaths(platform) :
          LET abs_path == abspath(platform, p)
          IN  IF abs_path \in analysis.version_cache
              THEN analysis' = [analysis EXCEPT !.latest = abs_path,
                                                !.result_of = abs_path,
                                                !.td_uri_of = abs_path,
                                                !.analysis_status = "ready_for_ui"]
              ELSE /\ analysis.current_analysis_id < MaxAnalyses
                   /\ analysis' =
                         [analysis EXCEPT
                             !.latest = abs_path,
                             !.result_of = <<>>,       \* self.build_info = None
                             !.current_analysis_id = @ + 1,
                             !.analysis_status = "loading",
                             !.workers = Append(@, [path |-> abs_path,
                                                    pc |-> "inspect"])]
    /\ UNCHANGED <<platform, pc, config, disk, native, now, last, resolver, ui, install>>

WorkerStep_resets_status ==
    /\ pc = "running"
    /\ \E aid \in 1..Len(analysis.workers) :
          LET w == analysis.workers[aid]
              At(next) == [analysis EXCEPT !.workers[aid].pc = next]
          IN  \/ /\ w.pc = "inspect"
                 /\ analysis' = At("check")
              \/ /\ w.pc = "check"
                 /\ analysis' = At(IF aid = analysis.current_analysis_id
                                   THEN "write_result" ELSE "discarded")
              \/ /\ w.pc = "write_result"
                 /\ analysis' = [At("write_cache") EXCEPT !.result_of = w.path,
                                                          !.td_uri_of = w.path]
              \/ /\ w.pc = "write_cache"
                 /\ analysis' = [At("write_status") EXCEPT
                                    !.version_cache = @ \cup {w.path}]
              \/ /\ w.pc = "write_status"
                 /\ analysis' = [At("done") EXCEPT
                                    !.analysis_status = "idle"]
    /\ UNCHANGED <<platform, pc, config, disk, native, now, last, resolver, ui, install>>

\* one step of the worker thread aid
WorkerStep ==
    /\ pc = "running"
    /\ \E aid \in 1..Len(analysis.workers) :
          LET w == analysis.workers[aid]
              At(next) == [analysis EXCEPT !.workers[aid].pc = next]
          IN  \/ /\ w.pc = "inspect"
                 /\ analysis' = At("check")
              \/ /\ w.pc = "check"
                 /\ analysis' = At(IF aid = analysis.current_analysis_id
                                   THEN "write_result" ELSE "discarded")
              \/ /\ w.pc = "write_result"
                 /\ analysis' = [At("write_cache") EXCEPT !.result_of = w.path,
                                                          !.td_uri_of = w.path]
              \/ /\ w.pc = "write_cache"
                 /\ analysis' = [At("write_status") EXCEPT
                                    !.version_cache = @ \cup {w.path}]
              \/ /\ w.pc = "write_status"
                 /\ analysis' = [At("done") EXCEPT
                                    !.analysis_status = "ready_for_ui"]
    /\ UNCHANGED <<platform, pc, config, disk, native, now, last, resolver, ui, install>>

\* _update_countdown on the UI thread: a finished analysis is shown
PollAnalysis ==
    /\ pc = "running"
    /\ analysis.analysis_status = "ready_for_ui"
    /\ analysis' = [analysis EXCEPT !.analysis_status = "idle"]
    /\ UNCHANGED <<platform, pc, config, disk, native, now, last, resolver, ui, install>>

InitAnalysis ==
    /\ InitManager
    /\ host = NoHost

NextAnalysis == AnalyzeToeFile \/ WorkerStep \/ PollAnalysis

SpecAnalysis == InitAnalysis /\ [][NextAnalysis]_vars

\* every started worker thread runs on, and the main loop keeps calling
\* _update_countdown once per frame
InitAnalysisLive == InitAnalysis /\ platform = "Windows"

SpecAnalysisLive ==
    InitAnalysisLive /\ [][NextAnalysis]_vars
    /\ WF_vars(WorkerStep) /\ WF_vars(PollAnalysis)

----------------------------------------------------------------------------
(* Claims about the background analysis, under SpecAnalysis *)

\* worker aid writes a shared result field in this step
Writes(aid) ==
    /\ aid \in 1..Len(analysis.workers)
    /\ analysis.workers[aid].pc \in WritePcs
    /\ analysis'.workers[aid].pc # analysis.workers[aid].pc

\* C20 (as claimed): in every interleaving of the UI thread and the workers, a
\* worker whose analysis id is not the latest request's id never writes the
\* shared result fields (required version, download URL and file name, cache
\* entry, status flag).
C20_StaleDiscarded ==
    [][\A aid \in 1..MaxAnalyses :
          Writes(aid) => aid = analysis.current_analysis_id]_vars

\* The part of C20 the code keeps: a worker that finds its id stale when it
\* tests it writes nothing afterwards.
StaleAtTestWritesNothing ==
    [][\A aid \in 1..Len(analysis.workers) :
          (analysis.workers[aid].pc = "check"
              /\ aid # analysis.current_analysis_id
              /\ analysis'.workers[aid].pc # "check")
          => analysis'.workers[aid].pc = "discarded"]_vars

----------------------------------------------------------------------------
(* Claims about a move up followed by a move down, under SpecTemplates *)

\* every entry occurs as often in s as in t
SameEntries(s, t) ==
    \A e \in Range(s) \cup Range(t) :
       Cardinality({i \in 1..Len(s) : s[i] = e})
       = Cardinality({i \in 1..Len(t) : t[i] = e})

----------------------------------------------------------------------------
(* Claims about a launch that finds no executable, under SpecLauncher *)

LaunchOps == {"launch", "double_click", "quick_launch"}

\* C24: after a launch whose version has no executable (get_executable
\* returns None) no runtime process has been started and the window is still
\* open: dpg.stop_dearpygui() was not called.
C24_LaunchFailureNonFatal ==
    (last.op \in LaunchOps /\ last.out \notin Range(versions))
    => (~last.ok /\ pc = "running")

\* the launch button was pressed for a file that requires a version that is
\* not installed, while another version is
C24_Witness ==
    /\ last.op = "launch"
    /\ last.out # None
    /\ last.out \notin Range(versions)
    /\ versions # <<>>
    /\ ~last.ok
    /\ pc = "running"

----------------------------------------------------------------------------
(* Claims about a removal seen through get_recent_files, under SpecRecents *)

\* the paths get_recent_files returns
ListedPaths(merged) ==
    LET out == get_recent_files(platform, config, registry, sfl, merged)
    IN  {_get_path_from_entry(out[i]) : i \in 1..Len(out)} \ {<<>>}

\* C27 (as claimed): after remove_recent_file(p), get_recent_files, merged or
\* not, returns no entry equal to p under the equality rule, whatever the
\* launcher history, the td_recents list of the document and the native store
\* hold.
C27_RemovalEffective ==
    last.op = "remove_recent_file"
    => \A merged \in BOOLEAN :
          \A q \in ListedPaths(merged) : ~EqualUnderRule(q, last.arg)

\* The part of C27 the code keeps: the unmerged list holds no entry with the
\* normcase key of p.
RemovedFromLauncherList ==
    last.op = "remove_recent_file"
    => \A q \in ListedPaths(FALSE) :
          NormKey(platform, q) # NormKey(platform, last.arg)

\* worker aid has ended, with or without applying its result
Finished(aid) == analysis.workers[aid].pc \in {"done", "discarded"}

\* an inspection of file p has been applied: its worker went through all its
\* assignments
Applied(p) ==
    \E aid \in 1..Len(analysis.workers) :
       analysis.workers[aid] = [path |-> p, pc |-> "done"]

\* this step is a request for file p on the UI thread
RequestFor(p) ==
    /\ analysis'.latest = p
    /\ analysis' # analysis
    /\ analysis'.analysis_status # "idle"
    /\ \A aid \in 1..Len(analysis.workers) :
          analysis'.workers[aid] = analysis.workers[aid]

\* C23: once an inspection of file p has been applied, a later request for p
\* starts no worker (the external tool is not run again) and leaves the
\* cached result of p in the shared fields.
C23_CachedPerPath ==
    [][\A p \in UiPaths(platform) :
          (Applied(p) /\ RequestFor(p))
          => /\ analysis'.workers = analysis.workers
             /\ analysis'.result_of = p
             /\ analysis'.td_uri_of = p
             /\ analysis'.analysis_status = "ready_for_ui"]_vars

\* file p was inspected, then another file was requested, then p again: the
\* second request for p was served from the cache
C23_Witness ==
    /\ Len(analysis.workers) = 2
    /\ analysis.workers[1].pc = "done"
    /\ analysis.workers[2].path # analysis.workers[1].path
    /\ analysis.latest = analysis.workers[1].path
    /\ analysis.result_of = analysis.latest
    /\ analysis.current_analysis_id = 2

C26_ResultMatchesSelection ==
    (analysis.latest # <<>>
        /\ \A aid \in 1..Len(analysis.workers) : Finished(aid))
    => analysis.result_of = analysis.latest

----------------------------------------------------------------------------
(* The installer of a missing version and the monitoring of its installation *)

MaxStarts == 2      \* number of installers started in one behaviour

\* what inspect_toe_file returns for the project files of the window: file a
\* was saved by build 2022.200 and file b by build 2023.300
RequiredVersion(plat, p) ==
    IF p = PathA(plat) THEN TD(<<Num(2022), Num(200)>>)
    ELSE TD(<<Num(2023), Num(300)>>)

\* self.build_info while analysis.result_of is the file it was read from
BuildInfo == IF analysis.result_of = <<>> THEN None
             ELSE RequiredVersion(platform, analysis.result_of)

\* self.td_uri: the installer of the required build, next to the project file
TdUri == IF analysis.td_uri_of = <<>> THEN NoUri
         ELSE [toe_dir |-> SliceTo(analysis.td_uri_of,
                                   Len(analysis.td_uri_of) - 1),
               td_filename |-> RequiredVersion(platform, analysis.td_uri_of)]

\* the installers that can lie next to the project files
InstallerFiles(plat) ==
    {[toe_dir |-> SliceTo(p, Len(p) - 1), td_filename |-> RequiredVersion(plat, p)] :
        p \in UiPaths(plat)}

OnInstall_without_file_check ==
    /\ pc = "running"
    /\ IF TdUri = NoUri
       THEN /\ last' = Call("_on_install", TdUri, FALSE, 0, None)
            /\ UNCHANGED install
       ELSE \E opened \in BOOLEAN :
               /\ opened => install.starts < MaxStarts
               /\ install' =
                     IF ~opened THEN install
                     ELSE IF BuildInfo = None
                     THEN [install EXCEPT !.running = @ \cup {TdUri},
                                          !.starts = @ + 1]
                     ELSE [install EXCEPT !.running = @ \cup {TdUri},
                                          !.starts = @ + 1,
                                          !.install_pending_version = BuildInfo,
                                          !.since_check = 0,
                                          !.opened = TdUri]
               /\ last' = Call("_on_install", TdUri, opened, 1,
                               install'.install_pending_version)
    /\ UNCHANGED <<platform, pc, config, disk, native, now, resolver, ui, analysis>>

\* LauncherApp._on_install: the install button.  opened says whether
\* subprocess.Popen / os.startfile started the installer; last.n is 1 when
\* the installer file was found; install.starts counts the installers started.
OnInstall ==
    /\ pc = "running"
    /\ IF TdUri = NoUri \/ TdUri \notin install.installers
       THEN /\ last' = Call("_on_install", TdUri, FALSE, 0, None)
            /\ UNCHANGED install
       ELSE \E opened \in BOOLEAN :
               /\ opened => install.starts < MaxStarts
               /\ install' =
                     IF ~opened THEN install
                     ELSE IF BuildInfo = None
                     THEN [install EXCEPT !.running = @ \cup {TdUri},
                                          !.starts = @ + 1]
                     ELSE [install EXCEPT !.running = @ \cup {TdUri},
                                          !.starts = @ + 1,
                                          !.install_pending_version = BuildInfo,
                                          !.since_check = 0,
                                          !.opened = TdUri]
               /\ last' = Call("_on_install", TdUri, opened, 1,
                               install'.install_pending_version)
    /\ UNCHANGED <<platform, pc, config, disk, native, now, resolver, ui, analysis>>

\* a second of time.time() passes while an installation is monitored (the
\* difference to install_check_time is kept up to PollInterval)
Elapse ==
    /\ pc = "running"
    /\ install.install_pending_version # None
    /\ install.since_check < PollInterval
    /\ install' = [install EXCEPT !.since_check = @ + 1]
    /\ UNCHANGED <<platform, pc, config, disk, native, now, last, resolver,
                   ui, analysis>>

\* an installer that was started finishes: its build is installed
InstallerFinishes ==
    /\ pc = "running"
    /\ Len(host.installs) < MaxInstalls
    /\ \E uri \in install.running :
          LET number == <<uri.td_filename.parts[1].val, uri.td_filename.parts[2].val>>
          IN  /\ \A i \in 1..Len(host.installs) : host.installs[i].number # number
              /\ host' = [host EXCEPT !.installs =
                            Append(@, [product |-> "TouchDesigner",
                                       number |-> number,
                                       listed |-> TRUE, exe |-> TRUE])]
    /\ UNCHANGED <<platform, pc, config, disk, registry, sfl, fsFiles, now, last,
                   resolver, app>>

\* LauncherApp._check_install_complete, called once per frame, when it gets
\* past its two early returns: discovery runs again and, when the pending
\* version is found, the monitoring ends, the panel is refreshed and the
\* installer self.td_uri names is offered for deletion if it exists
CheckInstallComplete ==
    /\ pc = "running"
    /\ install.install_pending_version # None
    /\ install.since_check >= PollInterval
    /\ LET found == discover_versions(platform, host.installs).versions
       IN  versions' = [i \in 1..Len(found) |-> found[i].key]
    /\ LET complete == install.install_pending_version \in Range(versions')
           installed_uri == TdUri
           offer == installed_uri # NoUri /\ installed_uri \in install.installers
       IN  /\ install' = [install EXCEPT
                             !.since_check = 0,
                             !.install_pending_version =
                                 IF complete THEN None ELSE @,
                             !.offered = IF complete /\ offer THEN installed_uri
                                         ELSE @]
           /\ last' = Call("_check_install_complete",
                           install.install_pending_version, complete, 0,
                           IF complete /\ offer THEN installed_uri ELSE NoUri)
           /\ IF complete
              THEN LET version_keys == get_sorted_version_keys(versions')
                   IN  panel' = [shown |-> TRUE,
                                 required |-> BuildInfo,
                                 installed |-> versions',
                                 version_keys |-> version_keys,
                                 default_version |->
                                     default_version(version_keys, BuildInfo)]
              ELSE panel' = panel
    /\ UNCHANGED <<platform, pc, config, disk, native, now, build_info, ui, analysis>>

\* the analysis of a session in which file a was inspected, its result
\* applied, and file b has just been selected MaxAnalyses - 1 times in a row:
\* only the last worker is still running, build_info was reset and the
\* download target is still the one of file a
LoadingAnalysis(plat) ==
    [current_analysis_id |-> MaxAnalyses,
     analysis_status |-> "loading",
     latest |-> PathB(plat),
     result_of |-> <<>>,
     td_uri_of |-> PathA(plat),
     version_cache |-> {PathA(plat)},
     workers |-> [aid \in 1..MaxAnalyses |->
                    IF aid = 1 THEN [path |-> PathA(plat), pc |-> "done"]
                    ELSE IF aid < MaxAnalyses
                    THEN [path |-> PathB(plat), pc |-> "discarded"]
                    ELSE [path |-> PathB(plat), pc |-> "inspect"]]]

\* that session on a platform the runtime has installers for; one of the
\* two installers, or both, have been downloaded
InitInstall ==
    /\ platform \in {"Windows", "Darwin"}
    /\ pc = "running"
    /\ config = DEFAULT_CONFIG
    /\ disk = [DiskWith(EmptyDoc) EXCEPT !.kind = "absent"]
    /\ registry = <<>>
    /\ sfl = <<>>
    /\ fsFiles = AllFiles(platform)
    /\ now = 1
    /\ last = NoCall
    /\ versions = <<>>
    /\ build_info = None
    /\ panel = NoPanel
    /\ ui = NoUi
    /\ host = NoHost
    /\ analysis = LoadingAnalysis(platform)
    /\ \E files \in SUBSET InstallerFiles(platform) :
          /\ files # {}
          /\ install = [NoInstall EXCEPT !.installers = files]

NextInstall ==
    \/ AnalyzeToeFile
    \/ WorkerStep
    \/ PollAnalysis
    \/ OnInstall
    \/ Elapse
    \/ InstallerFinishes
    \/ CheckInstallComplete

SpecInstall == InitInstall /\ [][NextInstall]_vars

\* time passes, and the main loop keeps calling _check_install_complete once
\* per frame
InitInstallLive == InitInstall /\ platform = "Windows"

SpecInstallLive ==
    InitInstallLive /\ [][NextInstall]_vars
    /\ WF_vars(Elapse) /\ WF_vars(CheckInstallComplete)

----------------------------------------------------------------------------
(* Claims about the install monitoring, under SpecInstall and SpecInstallLive *)

Pending == install.install_pending_version

\* the keys a discovery run on the machine would return now
InstalledKeys ==
    LET found == discover_versions(platform, host.installs).versions
    IN  {found[i].key : i \in 1..Len(found)}

\* this step is a poll that got past the interval test
Poll ==
    /\ Pending # None
    /\ install.since_check >= PollInterval
    /\ install'.since_check = 0
    /\ last'.op = "_check_install_complete"

\* The safety part of C21, which the code keeps: a poll re-runs discovery; it
\* ends the monitoring and refreshes the panel when the pending version is
\* among the versions found, and leaves the state pending otherwise; discovery
\* is not re-run before PollInterval seconds have passed.
PollCompletes ==
    [][/\ Poll => /\ Range(versions') = InstalledKeys
                  /\ IF Pending \in InstalledKeys
                     THEN /\ install'.install_pending_version = None
                          /\ panel'.shown
                          /\ panel'.installed = versions'
                     ELSE install'.install_pending_version = Pending
       /\ (versions' # versions) => install.since_check >= PollInterval]_vars

\* The liveness the code keeps: the state does not stay pending for ever with
\* a version that is installed.
PollingEnds ==
    (Pending # None /\ Pending \in InstalledKeys)
    ~> (Pending = None \/ Pending \notin InstalledKeys)

\* C21 (as claimed): while the state is pending(v) each poll re-runs discovery
\* and the first poll that finds v installed makes the state idle and
\* refreshes the panel; and if v becomes and stays installed, the state idle
\* is eventually reached.  (On this machine an installed version stays
\* installed.)
C21_PollingReturnsToIdle ==
    /\ PollCompletes
    /\ (Pending # None /\ Pending \in InstalledKeys) ~> (Pending = None)

\* C22 (as claimed): once the state is pending(v), it stays pending(v) until
\* a poll finds v installed: no other step makes it idle or changes v.
C22_NoCancellation ==
    [][Pending # None
       => \/ install'.install_pending_version = Pending
          \/ /\ Poll
             /\ Pending \in Range(versions')
             /\ install'.install_pending_version = None]_vars

\* The part of C22 the code keeps: only a poll that finds the pending version
\* installed makes the state idle.
IdleOnlyByPoll ==
    [][(Pending # None /\ install'.install_pending_version = None)
       => (Poll /\ Pending \in Range(versions'))]_vars

\* C28 (as claimed): the installer offered for deletion when the monitoring
\* of version v completes is the installer that was started for v.
C28_OfferedIsInstalled ==
    (last.op = "_check_install_complete" /\ last.ok /\ last.out # NoUri)
    => last.out = install.opened

\* C30: an install triggered without a download target or with the installer
\* file missing changes nothing, so an idle state stays idle; and the state
\* becomes pending(v) only in an install step that found the installer file
\* and opened it, with v the required version build_info holds at that moment.
C30_MonitoredOnlyWhenStarted ==
    [][/\ (last'.op = "_on_install" /\ last' # last /\ last'.n = 0)
          => /\ TdUri = NoUri \/ TdUri \notin install.installers
             /\ UNCHANGED <<install, host, versions, analysis, panel>>
       /\ (install'.install_pending_version \notin {None, Pending})
          => /\ TdUri # NoUri
             /\ TdUri \in install.installers
             /\ last'.op = "_on_install"
             /\ last'.ok
             /\ TdUri \in install'.running
             /\ BuildInfo # None
             /\ install'.install_pending_version = BuildInfo]_vars

\* the installer of the selected file was found and opened while nothing was
\* monitored, and an install was triggered before for a file whose installer
\* is missing
C30_Witness ==
    /\ last.op = "_on_install"
    /\ last.ok
    /\ last.out = Pending
    /\ Pending # None
    /\ install.opened = last.arg
    /\ install.installers # InstallerFiles(platform)

====
